---- MODULE Spec2Model ----
(***************************************************************************)
(* Distributed Mandelbrot tile pipeline: the host (coordinator) seeds the  *)
(* work stream "mandelbrot:work" with the four quarters of the canvas,     *)
(* workers read it through the consumer group "workers", evaluate the      *)
(* centre of each region, post the colour to "mandelbrot:results",         *)
(* subdivide and re-post the quarters that are larger than one pixel, and  *)
(* acknowledge.  The broker (Redis streams) is modelled by the commands    *)
(* the program issues: XADD, XREADGROUP ... '>', XACK, XGROUP CREATE, DEL. *)
(***************************************************************************)
EXTENDS Integers, Sequences, FiniteSets, TLC

\* ---------------------------------------------------------------- bounds
MaxCoord == 4       \* coordinates of the regions given to subdivide_region
MaxFaults == 1      \* disturbances per run: transport errors plus foreign entries

\* Canvas sizes of the concurrent runs: a zero dimension (evaluation raises),
\* one-pixel seeds, and the smallest canvas with a seed that subdivides into a
\* region that is posted back (its seeds are 2x2, 3x2, 2x3 and 3x3).
Canvases == {<<0, 2>>, <<2, 2>>, <<5, 5>>}

MaxCanvasSingle == 6  \* canvas sizes 1..MaxCanvasSingle of the single-worker runs

MaxRuns == 2        \* runs of the host program against the same broker

MaxCanvasHost == 4  \* canvas sizes 0..MaxCanvasHost of the runs of the host alone

Workers == {"w1", "w2"}

\* ------------------------------------------------- worker.py, pure helpers
\* Python's None / an empty list: both are falsy for `if quarters:`.
None == <<>>

Truthy(list) == Len(list) > 0

Quarter(name, tlx, tly, brx, bry) ==
    [quarter |-> name, top_left_x |-> tlx, top_left_y |-> tly,
     bottom_right_x |-> brx, bottom_right_y |-> bry]

\* A variant whose top-right quarter starts one pixel right of the midpoint.
subdivide_region_skew(top_left_x, top_left_y, bottom_right_x, bottom_right_y) ==
    LET mid_x == (top_left_x + bottom_right_x) \div 2
        mid_y == (top_left_y + bottom_right_y) \div 2
    IN  IF mid_x = top_left_x /\ mid_y = top_left_y
        THEN None
        ELSE << Quarter("top_left", top_left_x, top_left_y, mid_x, mid_y),
                Quarter("top_right", mid_x + 1, top_left_y, bottom_right_x, mid_y),
                Quarter("bottom_left", top_left_x, mid_y, mid_x, bottom_right_y),
                Quarter("bottom_right", mid_x, mid_y, bottom_right_x, bottom_right_y) >>

\* A variant whose bottom-right quarter is the region itself.
subdivide_region_whole(top_left_x, top_left_y, bottom_right_x, bottom_right_y) ==
    LET mid_x == (top_left_x + bottom_right_x) \div 2
        mid_y == (top_left_y + bottom_right_y) \div 2
    IN  IF mid_x = top_left_x /\ mid_y = top_left_y
        THEN None
        ELSE << Quarter("top_left", top_left_x, top_left_y, mid_x, mid_y),
                Quarter("top_right", mid_x, top_left_y, bottom_right_x, mid_y),
                Quarter("bottom_left", top_left_x, mid_y, mid_x, bottom_right_y),
                Quarter("bottom_right", top_left_x, top_left_y,
                        bottom_right_x, bottom_right_y) >>

\* MandelbrotWorker.subdivide_region
subdivide_region(top_left_x, top_left_y, bottom_right_x, bottom_right_y) ==
    LET mid_x == (top_left_x + bottom_right_x) \div 2
        mid_y == (top_left_y + bottom_right_y) \div 2
    IN  IF mid_x = top_left_x /\ mid_y = top_left_y
        THEN None
        ELSE << Quarter("top_left", top_left_x, top_left_y, mid_x, mid_y),
                Quarter("top_right", mid_x, top_left_y, bottom_right_x, mid_y),
                Quarter("bottom_left", top_left_x, mid_y, mid_x, bottom_right_y),
                Quarter("bottom_right", mid_x, mid_y, bottom_right_x, bottom_right_y) >>

\* Pixel extent of a rectangle, top-left inclusive, bottom-right exclusive.
Pixels(r) ==
    { <<x, y>> \in (r.top_left_x .. r.bottom_right_x - 1)
                   \X (r.top_left_y .. r.bottom_right_y - 1) : TRUE }

\* ---------------------------------------------------- the tile evaluator
\* Floating point is modelled in fixed point with FixScale units per 1.0;
\* products stay below 2^31 while |z| <= 2 before the update.
FixScale == 4096

max_iterations == 100

\* escape_radius = 2.0, squared, in fixed point
EscapeSq == 4 * FixScale * FixScale

\* MandelbrotWorker.pixel_to_complex; the caller has checked the divisors.
pixel_to_complex(pixel_x, pixel_y, cw, ch) ==
    [re |-> ((0 - 5) * FixScale) \div 2 + (pixel_x * 4 * FixScale) \div cw,
     im |-> (0 - 2) * FixScale + (pixel_y * 4 * FixScale) \div ch]

\* An iteration that also stops when abs(z) equals the escape radius.
MandelStepAtRadius(c, s) ==
    CHOOSE r \in { IF v[3] = max_iterations THEN v
                   ELSE IF v[1] * v[1] + v[2] * v[2] >= EscapeSq THEN v
                   ELSE << (v[1] * v[1] - v[2] * v[2]) \div FixScale + c.re,
                           (2 * v[1] * v[2]) \div FixScale + c.im,
                           v[3] + 1 >>
                   : v \in {s} } : TRUE

\* One iteration of the loop of mandelbrot_iterations on the loop state
\* <<Re z, Im z, n>>: once the loop has returned n (escape, or the range is
\* exhausted) the state no longer changes.  The bound variable v makes the step
\* evaluate its argument once.
MandelStep(c, s) ==
    CHOOSE r \in { IF v[3] = max_iterations THEN v
                   ELSE IF v[1] * v[1] + v[2] * v[2] > EscapeSq THEN v
                   ELSE << (v[1] * v[1] - v[2] * v[2]) \div FixScale + c.re,
                           (2 * v[1] * v[2]) \div FixScale + c.im,
                           v[3] + 1 >>
                   : v \in {s} } : TRUE

\* Ten iterations of the loop.
MandelTen(c, s) ==
    MandelStep(c, MandelStep(c, MandelStep(c, MandelStep(c, MandelStep(c,
    MandelStep(c, MandelStep(c, MandelStep(c, MandelStep(c, MandelStep(c, s))))))))))

\* The loop state after 10 * k further iterations, as a one-element set; each
\* block of ten is evaluated to a value before the next one starts.
RECURSIVE MandelBlocks(_, _, _)
MandelBlocks(c, s, k) ==
    IF k = 0 THEN {s}
    ELSE UNION { MandelBlocks(c, v, k - 1) : v \in {MandelTen(c, s)} }

\* MandelbrotWorker.mandelbrot_iterations: `for n in range(self.max_iterations)`
mandelbrot_iterations(c) ==
    (CHOOSE s \in MandelBlocks(c, <<0, 0, 0>>, max_iterations \div 10) : TRUE)[3]

\* int(255 * (0.5 + 0.5 * sin(3.0 * t + phase))) for t = n / 100, n = 0..99
SinR ==
    <<127, 131, 135, 138, 142, 146, 150, 154, 157, 161, 165, 168, 172, 175, 179, 182, 186, 189, 193, 196,
      199, 202, 205, 208, 211, 214, 217, 219, 222, 224, 227, 229, 231, 234, 236, 238, 239, 241, 243, 244,
      246, 247, 248, 250, 251, 251, 252, 253, 253, 254, 254, 254, 254, 254, 254, 254, 254, 253, 253, 252,
      251, 250, 249, 248, 247, 245, 244, 242, 241, 239, 237, 235, 233, 231, 229, 226, 224, 221, 219, 216,
      213, 210, 207, 204, 201, 198, 195, 192, 188, 185, 181, 178, 174, 171, 167, 164, 160, 156, 153, 149>>

SinG ==
    <<243, 241, 240, 238, 236, 234, 232, 229, 227, 225, 222, 219, 217, 214, 211, 208, 205, 202, 199, 196,
      193, 189, 186, 183, 179, 176, 172, 169, 165, 161, 158, 154, 150, 146, 142, 139, 135, 131, 127, 123,
      120, 116, 112, 108, 104, 101, 97, 93, 90, 86, 82, 79, 75, 72, 68, 65, 62, 58, 55, 52,
      49, 46, 43, 40, 37, 35, 32, 30, 27, 25, 23, 21, 18, 17, 15, 13, 11, 10, 8, 7,
      6, 5, 4, 3, 2, 1, 1, 0, 0, 0, 0, 0, 0, 0, 0, 1, 1, 2, 3, 4>>

SinB ==
    <<31, 28, 26, 23, 21, 19, 17, 15, 13, 12, 10, 9, 7, 6, 5, 4, 3, 2, 1, 1,
      0, 0, 0, 0, 0, 0, 0, 0, 1, 1, 2, 3, 3, 4, 5, 7, 8, 9, 11, 13,
      14, 16, 18, 20, 22, 25, 27, 29, 32, 34, 37, 40, 43, 46, 49, 52, 55, 58, 61, 64,
      68, 71, 75, 78, 82, 85, 89, 93, 96, 100, 104, 108, 111, 115, 119, 123, 127, 130, 134, 138,
      142, 146, 149, 153, 157, 161, 164, 168, 172, 175, 179, 182, 186, 189, 192, 195, 199, 202, 205, 208>>

\* MandelbrotWorker.iterations_to_color
iterations_to_color(iterations) ==
    IF iterations = max_iterations
    THEN <<0, 0, 0>>
    ELSE <<SinR[iterations + 1], SinG[iterations + 1], SinB[iterations + 1]>>

\* MandelbrotWorker.calculate_region_color
calculate_region_color(tlx, tly, brx, bry, cw, ch) ==
    LET center_x == (tlx + brx) \div 2
        center_y == (tly + bry) \div 2
    IN  iterations_to_color(
            mandelbrot_iterations(pixel_to_complex(center_x, center_y, cw, ch)))


\* ------------------------------------------------------------------ state
VARIABLES
    canvas_width, canvas_height,  \* MandelbrotHost.__init__ arguments
    host_pc, host_i,              \* host.main: position, index of the quarter being posted
    work_stream,                  \* "mandelbrot:work": sequence of [id, fields]
    result_stream,                \* "mandelbrot:results": sequence of [id, fields]
    work_next_id, result_next_id, \* server-assigned ids, monotonic per stream
    group,                        \* consumer group "workers": [exists, last_delivered]
    pending,                      \* its pending-entries list: set of [id, consumer]
    pc, cur, quarters, qi,        \* per worker: position in run(), message, quarters, loop index
    posted_count, processed_count,
    faults,                       \* transport errors and foreign entries so far
    delivered,                    \* history: every delivery [id, consumer, attempt]
    failed,                       \* history: ids whose processing raised an error
    interrupted,                  \* history: ids in flight when their worker was interrupted
    polled_empty,                 \* history: the worker's xreadgroup has returned an empty reply
    last_done,                    \* history: posted_count of each worker's latest completed item
    sub_in, sub_out,              \* argument and result of a direct call of subdivide_region
    host_run,                     \* how many times main() of the host has been started
    seeded,                       \* history: ids the current run of the host has added
    read_failed,                  \* history: the worker's latest xreadgroup raised an error
    eval_in, eval_out,            \* argument and results of direct calls of calculate_region_color
    image_array,                  \* renderer: the raster, pixel -> colour
    regions_rendered,             \* renderer: statistics counter
    lock,                         \* renderer: holder of self.lock
    running,                      \* renderer: self.running
    render_pc, entries, last_id,  \* read thread: position, batch being processed, cursor
    paint_todo,                   \* read thread: pixels of the slice not yet assigned
    done_rasters,                 \* history: the raster after each processed result entry
    stream_read_failed,           \* history: the read thread's latest xread raised an error
    display_pc, screen,           \* display loop: position, surface last shown
    export_pc, saved,             \* save_image: position, surface written to the file
    iter_c, iter_z, iter_pc,      \* direct call of mandelbrot_iterations: c, <<Re z, Im z, n>>, position
    iter_ret,                     \* the value it returned
    iter_updates,                 \* history: updates z = z * z + c performed
    iter_bounded,                 \* history: abs(z) <= escape_radius held for every earlier z
    renderer_no,                  \* how many renderer processes have been started
    earlier                       \* history: cursor and raster of the renderers that ran before

hostVars == <<canvas_width, canvas_height, host_pc, host_i, host_run, seeded>>
brokerVars == <<work_stream, result_stream, work_next_id, result_next_id, group, pending>>
workerVars == <<pc, cur, quarters, qi, posted_count, processed_count>>
historyVars == <<delivered, failed, interrupted, polled_empty, last_done, read_failed>>
callVars == <<sub_in, sub_out>>
evalVars == <<eval_in, eval_out>>
iterVars == <<iter_c, iter_z, iter_pc, iter_ret, iter_updates, iter_bounded>>
replayVars == <<renderer_no, earlier>>
readerVars == <<render_pc, entries, last_id, paint_todo, done_rasters, stream_read_failed>>
renderVars == <<image_array, regions_rendered, lock, running, readerVars,
                display_pc, screen, export_pc, saved>>
vars == <<hostVars, brokerVars, workerVars, faults, historyVars, callVars,
          evalVars, iterVars, replayVars, renderVars>>

NoGroup == [exists |-> FALSE, last_delivered |-> 0]

NoMessage == [id |-> 0, fields |-> <<>>]

\* ---------------------------------------------------------- broker commands
\* A publish that the client sends a second time: the entry is added twice.
XAddTwice(stream, id, fields) ==
    Append(Append(stream, [id |-> id, fields |-> fields]), [id |-> id, fields |-> fields])

\* A stream that puts a new entry in front of the entries it holds.
XAddAtHead(stream, id, fields) == <<[id |-> id, fields |-> fields]>> \o stream

\* XADD: the entry gets the next id of its stream.
XAdd(stream, id, fields) == Append(stream, [id |-> id, fields |-> fields])

\* Entries XREADGROUP ... '>' may deliver: those after the group's cursor.
Undelivered == { i \in 1..Len(work_stream) : work_stream[i].id > group.last_delivered }

\* A read that hands out the first entry of the stream whatever the cursor says.
FirstNewIgnoringCursor == IF work_stream = <<>> THEN 0 ELSE 1

\* Index of the entry XREADGROUP count=1 '>' returns, 0 for an empty reply.
FirstNew ==
    IF Undelivered = {} THEN 0
    ELSE CHOOSE i \in Undelivered : \A j \in Undelivered : i <= j

Attempts(id) == Cardinality({ d \in delivered : d.id = id })

\* ------------------------------------------------------------ host.py
\* A split at the half rounded up.
get_quarter_coordinates_ceil(cw, ch) ==
    LET half_width == (cw + 1) \div 2
        half_height == (ch + 1) \div 2
    IN  << Quarter("top_left", 0, 0, half_width, half_height),
           Quarter("top_right", half_width, 0, cw, half_height),
           Quarter("bottom_left", 0, half_height, half_width, ch),
           Quarter("bottom_right", half_width, half_height, cw, ch) >>

\* MandelbrotHost.get_quarter_coordinates
get_quarter_coordinates(cw, ch) ==
    LET half_width == cw \div 2
        half_height == ch \div 2
    IN  << Quarter("top_left", 0, 0, half_width, half_height),
           Quarter("top_right", half_width, 0, cw, half_height),
           Quarter("bottom_left", 0, half_height, half_width, ch),
           Quarter("bottom_right", half_width, half_height, cw, ch) >>

\* stream_data of post_quarters_to_redis; time.time() is a single instant here
HostWorkData(q, cw, ch) ==
    [quarter_name |-> q.quarter,
     top_left_x |-> q.top_left_x, top_left_y |-> q.top_left_y,
     bottom_right_x |-> q.bottom_right_x, bottom_right_y |-> q.bottom_right_y,
     timestamp |-> 0, canvas_width |-> cw, canvas_height |-> ch]

\* clear_streams, first DEL: the work stream goes, and its consumer group with it
HostClearWork ==
    /\ host_pc = "clear_work"
    /\ work_stream' = <<>>
    /\ group' = NoGroup
    /\ pending' = {}
    /\ host_pc' = "clear_results"
    /\ UNCHANGED <<canvas_width, canvas_height, host_i, host_run, seeded,
                   result_stream, work_next_id, result_next_id, workerVars, faults,
                   historyVars, callVars, evalVars, iterVars,
                   replayVars, renderVars>>

\* clear_streams, second DEL
HostClearResults ==
    /\ host_pc = "clear_results"
    /\ result_stream' = <<>>
    /\ host_pc' = "post"
    /\ host_i' = 1
    /\ UNCHANGED <<canvas_width, canvas_height, host_run, seeded, work_stream,
                   work_next_id, result_next_id, group, pending, workerVars, faults,
                   historyVars, callVars, evalVars, iterVars,
                   replayVars, renderVars>>

\* clear_streams, lines 109-115: a DEL raises (broker unreachable); the handler
\* prints the error, the rest of the try block is skipped and main() goes on to
\* post the quarters
HostClearFails ==
    /\ host_pc \in {"clear_work", "clear_results"}
    /\ faults < MaxFaults
    /\ faults' = faults + 1
    /\ host_pc' = "post"
    /\ host_i' = 1
    /\ UNCHANGED <<canvas_width, canvas_height, host_run, seeded, brokerVars,
                   workerVars, historyVars, callVars, evalVars, iterVars,
                   replayVars, renderVars>>

\* post_quarters_to_redis: one XADD per quarter
HostPost ==
    /\ host_pc = "post"
    /\ LET q == get_quarter_coordinates(canvas_width, canvas_height)[host_i]
       IN  work_stream' = XAdd(work_stream, work_next_id,
                               HostWorkData(q, canvas_width, canvas_height))
    /\ work_next_id' = work_next_id + 1
    /\ seeded' = seeded \cup {work_next_id}
    /\ host_i' = host_i + 1
    /\ host_pc' = IF host_i = 4 THEN "create_group" ELSE "post"
    /\ UNCHANGED <<canvas_width, canvas_height, host_run, result_stream,
                   result_next_id, group, pending, workerVars, faults, historyVars,
                   callVars, evalVars, iterVars,
                   replayVars, renderVars>>

\* A creation at "$": a new group starts after the last entry of the stream.
GroupAfterCreateAtEnd(g) ==
    IF g.exists THEN g ELSE [exists |-> TRUE, last_delivered |-> work_next_id - 1]

\* A creation that positions the group at the start even when it exists.
GroupAfterCreateReset(g) == [exists |-> TRUE, last_delivered |-> 0]

\* XGROUP CREATE mandelbrot:work workers 0 MKSTREAM: a new group starts before the
\* first entry; an existing one answers BUSYGROUP and is left as it is
GroupAfterCreate(g) ==
    IF g.exists THEN g ELSE [exists |-> TRUE, last_delivered |-> 0]

\* create_consumer_group: the ResponseError (BUSYGROUP or other) is printed,
\* never raised to main()
HostCreateGroup ==
    /\ host_pc = "create_group"
    /\ group' = GroupAfterCreate(group)
    /\ host_pc' = "done"
    /\ UNCHANGED <<canvas_width, canvas_height, host_i, host_run, seeded,
                   work_stream, result_stream, work_next_id, result_next_id,
                   pending, workerVars, faults, historyVars, callVars, evalVars, iterVars,
                   replayVars,
                   renderVars>>

\* The operator starts the host program again: main() from its first line.
HostRestart ==
    /\ host_pc = "done"
    /\ host_run < MaxRuns
    /\ host_run' = host_run + 1
    /\ host_pc' = "clear_work"
    /\ host_i' = 1
    /\ seeded' = {}
    /\ UNCHANGED <<canvas_width, canvas_height, brokerVars, workerVars, faults,
                   historyVars, callVars, evalVars, iterVars,
                   replayVars, renderVars>>

\* ------------------------------------------------------ redis_publisher.py
\* RedisPublisher.add_to_stream pointed at the work stream: fields data, timestamp
add_to_stream ==
    /\ faults < MaxFaults
    /\ faults' = faults + 1
    /\ work_stream' = XAdd(work_stream, work_next_id, [data |-> "{}", timestamp |-> 0])
    /\ work_next_id' = work_next_id + 1
    /\ UNCHANGED <<hostVars, result_stream, result_next_id, group, pending,
                   workerVars, historyVars, callVars, evalVars, iterVars,
                   replayVars, renderVars>>

\* ------------------------------------------------------------ worker.py
WorkKeys == {"top_left_x", "top_left_y", "bottom_right_x", "bottom_right_y",
             "canvas_width", "canvas_height"}

\* process_work_item, lines 265-276: int(fields[...]) raises KeyError on a missing
\* field, pixel_to_complex raises ZeroDivisionError on a zero canvas dimension
ProcessingRaises(fields) ==
    \/ ~(WorkKeys \subseteq DOMAIN fields)
    \/ fields.canvas_width = 0
    \/ fields.canvas_height = 0

\* A result whose red channel carries a mark of the worker that computed it.
ResultDataTinted(w, fields, color) ==
    [worker_id |-> w,
     quarter_name |-> IF "quarter_name" \in DOMAIN fields
                      THEN fields.quarter_name ELSE "unknown",
     top_left_x |-> fields.top_left_x, top_left_y |-> fields.top_left_y,
     bottom_right_x |-> fields.bottom_right_x, bottom_right_y |-> fields.bottom_right_y,
     color_r |-> IF w = "w1" THEN color[1] ELSE (color[1] + 1) % 256,
     color_g |-> color[2], color_b |-> color[3],
     timestamp |-> 0,
     canvas_width |-> fields.canvas_width, canvas_height |-> fields.canvas_height]

\* result_data of post_result_to_stream
ResultData(w, fields, color) ==
    [worker_id |-> w,
     quarter_name |-> IF "quarter_name" \in DOMAIN fields
                      THEN fields.quarter_name ELSE "unknown",
     top_left_x |-> fields.top_left_x, top_left_y |-> fields.top_left_y,
     bottom_right_x |-> fields.bottom_right_x, bottom_right_y |-> fields.bottom_right_y,
     color_r |-> color[1], color_g |-> color[2], color_b |-> color[3],
     timestamp |-> 0,
     canvas_width |-> fields.canvas_width, canvas_height |-> fields.canvas_height]

\* A sub-quadrant published like a seed, without the name of its publisher.
SubWorkDataUnsigned(w, q, cw, ch) ==
    [quarter_name |-> q.quarter \o "_sub",
     top_left_x |-> q.top_left_x, top_left_y |-> q.top_left_y,
     bottom_right_x |-> q.bottom_right_x, bottom_right_y |-> q.bottom_right_y,
     timestamp |-> 0, canvas_width |-> cw, canvas_height |-> ch]

\* work_data of post_subdivisions_to_work_stream
SubWorkData(w, q, cw, ch) ==
    [quarter_name |-> q.quarter \o "_sub",
     top_left_x |-> q.top_left_x, top_left_y |-> q.top_left_y,
     bottom_right_x |-> q.bottom_right_x, bottom_right_y |-> q.bottom_right_y,
     timestamp |-> 0, canvas_width |-> cw, canvas_height |-> ch,
     subdivided_by |-> w]

\* An evaluation whose result drifts with the number of calls made before it.
EvaluateDrifting(w, f) ==
    LET n == mandelbrot_iterations(
                 pixel_to_complex((f.top_left_x + f.bottom_right_x) \div 2,
                                  (f.top_left_y + f.bottom_right_y) \div 2,
                                  f.canvas_width, f.canvas_height))
    IN  iterations_to_color((n + Len(eval_out)) % (max_iterations + 1))

\* process_work_item, lines 273-276: color = self.calculate_region_color(...);
\* of the worker `self` the callee reads only the parameters set in __init__
Evaluate(w, f) ==
    calculate_region_color(f.top_left_x, f.top_left_y, f.bottom_right_x,
                           f.bottom_right_y, f.canvas_width, f.canvas_height)

\* A filter that lets one-pixel-wide strips through.
TooSmallAnd(q) ==
    /\ q.bottom_right_x - q.top_left_x <= 1
    /\ q.bottom_right_y - q.top_left_y <= 1

\* A filter that also skips the quarters two pixels wide or high.
TooSmallEarly(q) ==
    \/ q.bottom_right_x - q.top_left_x <= 2
    \/ q.bottom_right_y - q.top_left_y <= 2

\* post_subdivisions_to_work_stream, line 229: the quarter is skipped
TooSmall(q) ==
    \/ q.bottom_right_x - q.top_left_x <= 1
    \/ q.bottom_right_y - q.top_left_y <= 1

\* Index of the first quarter at or after position i that the loop of
\* post_subdivisions_to_work_stream does not skip; Len(qs) + 1 when there is none.
RECURSIVE NextToPost(_, _)
NextToPost(qs, i) ==
    IF i > Len(qs) THEN i
    ELSE IF TooSmall(qs[i]) THEN NextToPost(qs, i + 1)
    ELSE i

\* A poll that treats an empty reply like an error and tries again.
AfterEmptyPollRetry == "poll"

\* run, lines 322-324: `if not messages: break`
AfterEmptyPoll == "Terminated"

\* A loop that gives up when the read raises.
AfterReadErrorFatal == "Terminated"

\* run, lines 340-342: an error of xreadgroup is printed, the worker sleeps one
\* second and the loop polls again
AfterReadError == "poll"

\* A loop that handles one item and stops.
AfterItemOnce(qs, posted) == "Terminated"

\* A loop that exits when the item posted no subdivision.
AfterItemByPosted(qs, posted) == IF posted > 0 THEN "poll" ELSE "Terminated"

\* run, lines 329-335: has_subdivisions is what process_work_item returned
AfterItem(qs, posted) == IF Truthy(qs) THEN "poll" ELSE "Terminated"

\* An error handler that acknowledges the failed message to get rid of it.
PendingAfterErrorAcked(id) == { p \in pending : p.id # id }

\* run, lines 340-342: the handler only logs and sleeps; nothing is acknowledged
PendingAfterError(id) == pending

\* The locals of process_work_item (quarters, the loop index, posted_count) are
\* dead once it returns or raises; they are reset so that dead values do not
\* distinguish states.
\* An acknowledgment that is lost: the entry stays in the pending list.
PendingAfterAckLost(id) == pending

\* process_work_item, line 291: XACK removes the entry from the group's list
PendingAfterAck(id) == { p \in pending : p.id # id }

\* A worker that acknowledges as soon as the result is published.
PendingAfterResultAcked(id) == { p \in pending : p.id # id }

\* process_work_item, lines 281-288: between the result and the subdivisions no
\* xack is sent
PendingAfterResult(id) == pending

\* run, lines 314-324: XREADGROUP workers <worker_id> mandelbrot:work '>' COUNT 1
Poll(w) ==
    /\ pc[w] = "poll"
    /\ IF ~group.exists
       THEN \* NOGROUP: ResponseError, caught at line 340; sleep and poll again
            /\ pc' = [pc EXCEPT ![w] = AfterReadError]
            /\ read_failed' = [read_failed EXCEPT ![w] = TRUE]
            /\ UNCHANGED <<brokerVars, cur, quarters, qi, posted_count,
                           processed_count, delivered, polled_empty>>
       ELSE IF FirstNew = 0
       THEN \* the block times out with an empty reply
            /\ pc' = [pc EXCEPT ![w] = AfterEmptyPoll]
            /\ polled_empty' = [polled_empty EXCEPT ![w] = TRUE]
            /\ read_failed' = [read_failed EXCEPT ![w] = FALSE]
            /\ UNCHANGED <<brokerVars, cur, quarters, qi, posted_count,
                           processed_count, delivered>>
       ELSE LET m == work_stream[FirstNew]
            IN  /\ group' = [group EXCEPT !.last_delivered = m.id]
                /\ pending' = pending \cup {[id |-> m.id, consumer |-> w]}
                /\ delivered' = delivered \cup
                       {[id |-> m.id, consumer |-> w, attempt |-> Attempts(m.id) + 1]}
                /\ cur' = [cur EXCEPT ![w] = m]
                /\ pc' = [pc EXCEPT ![w] = "process"]
                /\ read_failed' = [read_failed EXCEPT ![w] = FALSE]
                /\ UNCHANGED <<work_stream, result_stream, work_next_id,
                               result_next_id, quarters, qi, posted_count,
                               processed_count, polled_empty>>
    /\ UNCHANGED <<hostVars, faults, failed, interrupted, last_done,
                   callVars, evalVars, iterVars,
                   replayVars, renderVars>>

\* process_work_item, lines 265-284: decode, evaluate, XADD the result, subdivide
Process(w) ==
    /\ pc[w] = "process"
    /\ LET f == cur[w].fields
       IN  IF ProcessingRaises(f)
           THEN /\ pc' = [pc EXCEPT ![w] = "poll"]
                /\ pending' = PendingAfterError(cur[w].id)
                /\ failed' = failed \cup {cur[w].id}
                /\ cur' = [cur EXCEPT ![w] = NoMessage]
                /\ UNCHANGED <<result_stream, result_next_id, quarters, qi,
                               posted_count>>
           ELSE LET color == Evaluate(w, f)
                    qs == subdivide_region(f.top_left_x, f.top_left_y,
                                           f.bottom_right_x, f.bottom_right_y)
                IN  /\ result_stream' = XAdd(result_stream, result_next_id,
                                             ResultData(w, f, color))
                    /\ result_next_id' = result_next_id + 1
                    /\ quarters' = [quarters EXCEPT ![w] = qs]
                    /\ qi' = [qi EXCEPT ![w] = NextToPost(qs, 1)]
                    /\ posted_count' = [posted_count EXCEPT ![w] = 0]
                    /\ pc' = [pc EXCEPT ![w] = IF NextToPost(qs, 1) <= Len(qs)
                                              THEN "post_sub" ELSE "ack"]
                    /\ pending' = PendingAfterResult(cur[w].id)
                    /\ UNCHANGED <<cur, failed>>
    /\ UNCHANGED <<hostVars, work_stream, work_next_id, group, processed_count,
                   faults, delivered, interrupted, polled_empty, last_done,
                   read_failed,
                   callVars, evalVars, iterVars,
                   replayVars, renderVars>>

\* post_subdivisions_to_work_stream, lines 224-247: the loop up to and including
\* its next XADD (the iterations that skip a quarter make no broker call)
PostSubdivision(w) ==
    /\ pc[w] = "post_sub"
    /\ LET q == quarters[w][qi[w]]
           f == cur[w].fields
           j == NextToPost(quarters[w], qi[w] + 1)
       IN  /\ work_stream' = XAdd(work_stream, work_next_id,
                                  SubWorkData(w, q, f.canvas_width, f.canvas_height))
           /\ work_next_id' = work_next_id + 1
           /\ posted_count' = [posted_count EXCEPT ![w] = @ + 1]
           /\ qi' = [qi EXCEPT ![w] = j]
           /\ pc' = [pc EXCEPT ![w] = IF j > Len(quarters[w]) THEN "ack" ELSE "post_sub"]
    /\ UNCHANGED <<hostVars, result_stream, result_next_id, group, pending, cur,
                   quarters, processed_count, faults, historyVars,
                   callVars, evalVars, iterVars,
                   replayVars, renderVars>>

\* process_work_item, lines 291-297, and run, lines 329-335: XACK, then return or loop
Ack(w) ==
    /\ pc[w] = "ack"
    /\ pending' = PendingAfterAck(cur[w].id)
    /\ processed_count' = [processed_count EXCEPT ![w] = @ + 1]
    /\ last_done' = [last_done EXCEPT ![w] = [done |-> TRUE, posted |-> posted_count[w]]]
    /\ pc' = [pc EXCEPT ![w] = AfterItem(quarters[w], posted_count[w])]
    /\ cur' = [cur EXCEPT ![w] = NoMessage]
    /\ quarters' = [quarters EXCEPT ![w] = None]
    /\ qi' = [qi EXCEPT ![w] = 1]
    /\ posted_count' = [posted_count EXCEPT ![w] = 0]
    /\ UNCHANGED <<hostVars, work_stream, result_stream, work_next_id,
                   result_next_id, group, faults, delivered, failed, interrupted,
                   polled_empty, read_failed, callVars, evalVars, iterVars,
                   replayVars, renderVars>>

\* run, lines 340-342: a redis call raises (broker unreachable); log, sleep, loop
TransportError(w) ==
    /\ pc[w] \in {"poll", "process", "post_sub", "ack"}
    /\ faults < MaxFaults
    /\ faults' = faults + 1
    /\ pc' = [pc EXCEPT ![w] = IF pc[w] = "poll" THEN AfterReadError ELSE "poll"]
    /\ read_failed' = [read_failed EXCEPT ![w] = (pc[w] = "poll")]
    /\ pending' = IF pc[w] = "poll" THEN pending ELSE PendingAfterError(cur[w].id)
    /\ failed' = IF pc[w] = "poll" THEN failed ELSE failed \cup {cur[w].id}
    /\ cur' = [cur EXCEPT ![w] = NoMessage]
    /\ quarters' = [quarters EXCEPT ![w] = None]
    /\ qi' = [qi EXCEPT ![w] = 1]
    /\ posted_count' = [posted_count EXCEPT ![w] = 0]
    /\ UNCHANGED <<hostVars, work_stream, result_stream, work_next_id,
                   result_next_id, group, processed_count, delivered, interrupted,
                   polled_empty, last_done, callVars, evalVars, iterVars,
                   replayVars, renderVars>>

\* An interrupt handler that acknowledges the message in flight before it leaves.
PendingAfterInterruptAcked(id) == { p \in pending : p.id # id }

\* run, lines 337-339: the handler prints and breaks; no broker call is made
PendingAfterInterrupt(id) == pending

\* run, lines 337-339: KeyboardInterrupt leaves the loop wherever it is
Interrupt(w) ==
    /\ pc[w] \in {"poll", "process", "post_sub", "ack"}
    /\ pc' = [pc EXCEPT ![w] = "Terminated"]
    /\ pending' = IF pc[w] = "poll" THEN pending ELSE PendingAfterInterrupt(cur[w].id)
    /\ interrupted' = IF pc[w] = "poll" THEN interrupted
                      ELSE interrupted \cup {cur[w].id}
    /\ cur' = [cur EXCEPT ![w] = NoMessage]
    /\ quarters' = [quarters EXCEPT ![w] = None]
    /\ qi' = [qi EXCEPT ![w] = 1]
    /\ posted_count' = [posted_count EXCEPT ![w] = 0]
    /\ UNCHANGED <<hostVars, work_stream, result_stream, work_next_id,
                   result_next_id, group, processed_count, faults, delivered,
                   failed, polled_empty, last_done, read_failed, callVars,
                   evalVars, iterVars, replayVars, renderVars>>

\* main() of the worker, lines 345-356: the worker program is started again
\* after it has stopped (the supervisor that keeps a worker alive); the model
\* keeps the name of the worker for the new process
WorkerMain(w) ==
    /\ pc[w] = "Terminated"
    /\ pc' = [pc EXCEPT ![w] = "poll"]
    /\ processed_count' = [processed_count EXCEPT ![w] = 0]
    /\ polled_empty' = [polled_empty EXCEPT ![w] = FALSE]
    /\ last_done' = [last_done EXCEPT ![w] = [done |-> FALSE, posted |-> 0]]
    /\ read_failed' = [read_failed EXCEPT ![w] = FALSE]
    /\ UNCHANGED <<hostVars, brokerVars, cur, quarters, qi, posted_count, faults,
                   delivered, failed, interrupted, callVars, evalVars, iterVars,
                   replayVars, renderVars>>

\* ------------------------------------------------------------ render.py
\* The text of a field that int() rejects with ValueError; every other value
\* stands for the decimal text of that integer.
NotANumber == 0 - 1000

ResultKeys == {"top_left_x", "top_left_y", "bottom_right_x", "bottom_right_y",
               "color_r", "color_g", "color_b"}

\* process_result_entry, lines 89-96: fields[...] raises KeyError on a missing
\* field, int() raises ValueError on a text that is not a number
DecodeRaises(fields) ==
    \/ ~(ResultKeys \subseteq DOMAIN fields)
    \/ \E k \in ResultKeys : fields[k] = NotANumber

Max(a, b) == IF a >= b THEN a ELSE b

Min(a, b) == IF a <= b THEN a ELSE b

\* The pixels of the renderer's image_array.
CanvasPixels == { <<x, y>> \in (0 .. canvas_width - 1) \X (0 .. canvas_height - 1) : TRUE }

\* np.zeros((canvas_height, canvas_width, 3))
Blank == [p \in CanvasPixels |-> <<0, 0, 0>>]

\* Clamps that keep the bottom-right corner inside the last row and column.
ClampedSliceInner(tlx, tly, brx, bry) ==
    LET x0 == Max(0, Min(tlx, canvas_width - 1))
        y0 == Max(0, Min(tly, canvas_height - 1))
        x1 == Max(0, Min(brx, canvas_width - 1))
        y1 == Max(0, Min(bry, canvas_height - 1))
    IN  { <<x, y>> \in (x0 .. x1 - 1) \X (y0 .. y1 - 1) : TRUE }

\* fill_region, lines 69-76: the four clamps, then the pixels selected by
\* image_array[top_left_y:bottom_right_y, top_left_x:bottom_right_x]
ClampedSlice(tlx, tly, brx, bry) ==
    LET x0 == Max(0, Min(tlx, canvas_width - 1))
        y0 == Max(0, Min(tly, canvas_height - 1))
        x1 == Max(0, Min(brx, canvas_width))
        y1 == Max(0, Min(bry, canvas_height))
    IN  { <<x, y>> \in (x0 .. x1 - 1) \X (y0 .. y1 - 1) : TRUE }

\* A paint that adds the colour to what the pixel holds.
PaintColorBlend(old, color) ==
    << (old[1] + color[1]) % 256, (old[2] + color[2]) % 256, (old[3] + color[3]) % 256 >>

\* fill_region, line 76: the slice assignment overwrites the pixel
PaintColor(old, color) == color

\* A lock that never makes anybody wait.
CanAcquireHeld == TRUE

\* `with self.lock:` blocks until nobody holds the lock
CanAcquire == lock = "free"

\* A read loop that jumps to the end of the batch when an entry cannot be decoded.
CursorAfterSkipBatch(batch) == batch[Len(batch)].id

\* read_results_from_stream, line 135: last_id = entry_id, also after an entry
\* that process_result_entry skipped
CursorAfterSkip(batch) == Head(batch).id

\* read_results_from_stream, lines 137-144: the error is printed, the thread
\* sleeps one second and the while loop reads again
AfterStreamReadError == "read"

\* A read that returns the entries after the cursor newest first.
NewResultsNewestFirst ==
    LET idx == { i \in 1..Len(result_stream) : result_stream[i].id > last_id }
        first == IF idx = {} THEN Len(result_stream) + 1
                 ELSE CHOOSE i \in idx : \A j \in idx : i <= j
        last == Min(Len(result_stream), first + 9)
    IN  [k \in 1..(last - first + 1) |-> result_stream[last + 1 - k]]

\* A read thread that starts at the end of the stream, as XREAD with "$" does.
StartCursorLatest ==
    IF result_stream = <<>> THEN 0 ELSE result_stream[Len(result_stream)].id

\* read_results_from_stream, line 120: last_id = "0", the start of the stream
StartCursor == 0

\* Entries XREAD returns for the cursor: those after last_id, at most count=10.
NewResults ==
    LET idx == { i \in 1..Len(result_stream) : result_stream[i].id > last_id }
        first == IF idx = {} THEN Len(result_stream) + 1
                 ELSE CHOOSE i \in idx : \A j \in idx : i <= j
    IN  SubSeq(result_stream, first, Min(Len(result_stream), first + 9))

\* The first pixel of a set in row-major order (the order of the slice assignment).
FirstPixel(ps) ==
    CHOOSE p \in ps : \A q \in ps : p[2] < q[2] \/ (p[2] = q[2] /\ p[1] <= q[1])

EntryColor(f) == << f.color_r, f.color_g, f.color_b >>

\* read_results_from_stream, lines 122-129: the loop test and the XREAD
XRead ==
    /\ render_pc = "read"
    /\ IF ~running
       THEN /\ render_pc' = "stopped"
            /\ UNCHANGED <<entries, stream_read_failed>>
       ELSE /\ entries' = NewResults
            /\ render_pc' = IF NewResults = <<>> THEN "read" ELSE "entry"
            /\ stream_read_failed' = FALSE
    /\ UNCHANGED <<hostVars, brokerVars, workerVars, faults, historyVars, callVars, evalVars, iterVars,
                   replayVars, image_array, regions_rendered, lock, running, last_id,
                   paint_todo, done_rasters, display_pc, screen, export_pc, saved>>

\* A handler that starts again from the beginning of the stream.
CursorAfterReadErrorReset == StartCursor

\* read_results_from_stream, lines 137-140: the handler does not assign last_id
CursorAfterReadError == last_id

\* read_results_from_stream, lines 137-140: xread raises redis.RedisError
StreamReadError ==
    /\ render_pc = "read"
    /\ running
    /\ faults < MaxFaults
    /\ faults' = faults + 1
    /\ stream_read_failed' = TRUE
    /\ render_pc' = AfterStreamReadError
    /\ last_id' = CursorAfterReadError
    /\ UNCHANGED <<hostVars, brokerVars, workerVars, historyVars, callVars, evalVars,
                   iterVars, replayVars, image_array, regions_rendered, lock,
                   running, entries, paint_todo, done_rasters, display_pc, screen,
                   export_pc, saved>>

\* process_result_entry, lines 87-101, and fill_region, lines 69-75: decode the
\* entry; on KeyError or ValueError print and return; else clamp and take the lock
process_result_entry ==
    /\ render_pc = "entry"
    /\ LET f == Head(entries).fields
       IN  IF DecodeRaises(f)
           THEN /\ last_id' = CursorAfterSkip(entries)
                /\ entries' = Tail(entries)
                /\ done_rasters' = Append(done_rasters, image_array)
                /\ render_pc' = IF Tail(entries) = <<>> THEN "read" ELSE "entry"
                /\ UNCHANGED <<lock, paint_todo>>
           ELSE /\ CanAcquire
                /\ lock' = "reader"
                /\ paint_todo' = ClampedSlice(f.top_left_x, f.top_left_y,
                                              f.bottom_right_x, f.bottom_right_y)
                /\ render_pc' = "paint"
                /\ UNCHANGED <<last_id, entries, done_rasters>>
    /\ UNCHANGED <<hostVars, brokerVars, workerVars, faults, historyVars, callVars, evalVars, iterVars,
                   replayVars, image_array, regions_rendered, running,
                   stream_read_failed, display_pc, screen, export_pc, saved>>

\* fill_region, line 76: the slice assignment, one pixel of it
PaintPixel ==
    /\ render_pc = "paint"
    /\ paint_todo # {}
    /\ LET p == FirstPixel(paint_todo)
       IN  /\ image_array' = [image_array EXCEPT
                                 ![p] = PaintColor(@, EntryColor(Head(entries).fields))]
           /\ paint_todo' = paint_todo \ {p}
    /\ UNCHANGED <<hostVars, brokerVars, workerVars, faults, historyVars, callVars, evalVars, iterVars,
                   replayVars, regions_rendered, lock, running, render_pc, entries,
                   last_id, done_rasters, stream_read_failed, display_pc, screen,
                   export_pc, saved>>

\* fill_region, line 77, the end of the with block, and line 135 of the read loop
PaintDone ==
    /\ render_pc = "paint"
    /\ paint_todo = {}
    /\ regions_rendered' = regions_rendered + 1
    /\ lock' = "free"
    /\ last_id' = Head(entries).id
    /\ entries' = Tail(entries)
    /\ done_rasters' = Append(done_rasters, image_array)
    /\ render_pc' = IF Tail(entries) = <<>> THEN "read" ELSE "entry"
    /\ UNCHANGED <<hostVars, brokerVars, workerVars, faults, historyVars, callVars, evalVars, iterVars,
                   replayVars, image_array, running, paint_todo, stream_read_failed,
                   display_pc, screen, export_pc, saved>>

\* run, lines 180-187: the loop test and the event queue; a QUIT or ESC event
\* clears self.running
HandleEvents ==
    /\ display_pc = "loop"
    /\ running
    /\ \E quit \in BOOLEAN : running' = ~quit
    /\ display_pc' = "update"
    /\ UNCHANGED <<hostVars, brokerVars, workerVars, faults, historyVars, callVars, evalVars, iterVars,
                   replayVars, image_array, regions_rendered, lock, readerVars, screen,
                   export_pc, saved>>

\* update_display, line 150: take the lock
update_display ==
    /\ display_pc = "update"
    /\ CanAcquire
    /\ lock' = "display"
    /\ display_pc' = "copy"
    /\ UNCHANGED <<hostVars, brokerVars, workerVars, faults, historyVars, callVars, evalVars, iterVars,
                   replayVars, image_array, regions_rendered, running, readerVars,
                   screen, export_pc, saved>>

\* update_display, lines 152-163: copy the raster to the screen, release the lock
DisplayCopy ==
    /\ display_pc = "copy"
    /\ screen' = image_array
    /\ lock' = "free"
    /\ display_pc' = "loop"
    /\ UNCHANGED <<hostVars, brokerVars, workerVars, faults, historyVars, callVars, evalVars, iterVars,
                   replayVars, image_array, regions_rendered, running, readerVars,
                   export_pc, saved>>

\* run, lines 180 and 197-200: the loop ends; main() goes on to save_image
RunReturns ==
    /\ display_pc = "loop"
    /\ ~running
    /\ display_pc' = "stopped"
    /\ export_pc' = "save"
    /\ UNCHANGED <<hostVars, brokerVars, workerVars, faults, historyVars, callVars, evalVars, iterVars,
                   replayVars, image_array, regions_rendered, lock, running, readerVars,
                   screen, saved>>

\* save_image, line 209: take the lock
save_image ==
    /\ export_pc = "save"
    /\ CanAcquire
    /\ lock' = "export"
    /\ export_pc' = "copy"
    /\ UNCHANGED <<hostVars, brokerVars, workerVars, faults, historyVars, callVars, evalVars, iterVars,
                   replayVars, image_array, regions_rendered, running, readerVars,
                   display_pc, screen, saved>>

\* save_image, lines 211-213: copy the raster to the file, release the lock
ExportCopy ==
    /\ export_pc = "copy"
    /\ saved' = image_array
    /\ lock' = "free"
    /\ export_pc' = "done"
    /\ UNCHANGED <<hostVars, brokerVars, workerVars, faults, historyVars, callVars, evalVars, iterVars,
                   replayVars, image_array, regions_rendered, running, readerVars,
                   display_pc, screen>>

\* A with block that keeps the lock when its body raises.
LockAfterRaiseHeld == lock

\* `with self.lock:` (lines 75, 150, 209) releases the lock when the body raises
LockAfterRaise == "free"

\* fill_region, line 76, raises before a pixel is assigned; the error leaves
\* process_result_entry (which catches KeyError and ValueError only) and is caught
\* at lines 141-144: print, sleep, read again from the unchanged cursor
PaintRaises ==
    /\ render_pc = "paint"
    /\ LET f == Head(entries).fields
       IN  paint_todo = ClampedSlice(f.top_left_x, f.top_left_y,
                                     f.bottom_right_x, f.bottom_right_y)
    /\ faults < MaxFaults
    /\ faults' = faults + 1
    /\ lock' = LockAfterRaise
    /\ render_pc' = "read"
    /\ entries' = <<>>
    /\ paint_todo' = {}
    /\ UNCHANGED <<hostVars, brokerVars, workerVars, historyVars, callVars, evalVars,
                   iterVars, replayVars, image_array, regions_rendered, running,
                   last_id, done_rasters, stream_read_failed, display_pc, screen,
                   export_pc, saved>>

\* update_display, lines 152-163, raises (pygame.error): the error leaves run()
\* through its finally clause, lines 197-200, and main() catches it at line 230,
\* so save_image is not called
DisplayRaises ==
    /\ display_pc = "copy"
    /\ faults < MaxFaults
    /\ faults' = faults + 1
    /\ lock' = LockAfterRaise
    /\ running' = FALSE
    /\ display_pc' = "stopped"
    /\ UNCHANGED <<hostVars, brokerVars, workerVars, historyVars, callVars, evalVars,
                   iterVars, replayVars, image_array, regions_rendered, readerVars,
                   screen, export_pc, saved>>

\* save_image, lines 211-212, raises: main() catches the error at line 230
ExportRaises ==
    /\ export_pc = "copy"
    /\ faults < MaxFaults
    /\ faults' = faults + 1
    /\ lock' = LockAfterRaise
    /\ export_pc' = "failed"
    /\ UNCHANGED <<hostVars, brokerVars, workerVars, historyVars, callVars, evalVars,
                   iterVars, replayVars, image_array, regions_rendered, running,
                   readerVars, display_pc, screen, saved>>

\* run, lines 195-200: KeyboardInterrupt in the display loop, wherever it is; the
\* finally clause clears self.running, run() returns and main() saves the image
RendererInterrupt ==
    /\ display_pc \in {"loop", "update", "copy"}
    /\ lock' = IF display_pc = "copy" THEN LockAfterRaise ELSE lock
    /\ running' = FALSE
    /\ display_pc' = "stopped"
    /\ export_pc' = "save"
    /\ UNCHANGED <<hostVars, brokerVars, workerVars, faults, historyVars, callVars,
                   evalVars, iterVars, replayVars, image_array, regions_rendered,
                   readerVars, screen, saved>>

\* ------------------------------------------------------------ the system
NoCall == [top_left_x |-> 0, top_left_y |-> 0, bottom_right_x |-> 0,
           bottom_right_y |-> 0]

NotCalled == [called |-> FALSE, value |-> None]

NoEval == [top_left_x |-> 0, top_left_y |-> 0, bottom_right_x |-> 0,
          bottom_right_y |-> 0, canvas_width |-> 1, canvas_height |-> 1]

\* No direct call of the evaluator is made.
NoEvalCalls ==
    /\ eval_in = NoEval
    /\ eval_out = <<>>

NoPoint == [re |-> 0, im |-> 0]

\* No direct call of mandelbrot_iterations is made.
NoIterCall ==
    /\ iter_c = NoPoint
    /\ iter_z = <<0, 0, 0>>
    /\ iter_pc = "not_called"
    /\ iter_ret = 0
    /\ iter_updates = 0
    /\ iter_bounded = TRUE

\* No renderer process has run before the one the state describes.
FirstRenderer ==
    /\ renderer_no = 1
    /\ earlier = {}

\* The renderer process is not running.
NoRenderer ==
    /\ image_array = <<>>
    /\ regions_rendered = 0
    /\ lock = "free"
    /\ running = FALSE
    /\ render_pc = "not_started"
    /\ entries = <<>>
    /\ last_id = 0
    /\ paint_todo = {}
    /\ done_rasters = <<>>
    /\ stream_read_failed = FALSE
    /\ display_pc = "not_started"
    /\ screen = <<>>
    /\ export_pc = "not_started"
    /\ saved = <<>>

Init ==
    /\ \E c \in Canvases : canvas_width = c[1] /\ canvas_height = c[2]
    /\ host_pc = "clear_work"
    /\ host_i = 1
    /\ work_stream = <<>>
    /\ result_stream = <<>>
    /\ work_next_id = 1
    /\ result_next_id = 1
    /\ group = NoGroup
    /\ pending = {}
    /\ pc = [w \in Workers |-> "poll"]
    /\ cur = [w \in Workers |-> NoMessage]
    /\ quarters = [w \in Workers |-> None]
    /\ qi = [w \in Workers |-> 1]
    /\ posted_count = [w \in Workers |-> 0]
    /\ processed_count = [w \in Workers |-> 0]
    /\ faults = 0
    /\ delivered = {}
    /\ failed = {}
    /\ interrupted = {}
    /\ polled_empty = [w \in Workers |-> FALSE]
    /\ last_done = [w \in Workers |-> [done |-> FALSE, posted |-> 0]]
    /\ read_failed = [w \in Workers |-> FALSE]
    /\ host_run = 1
    /\ seeded = {}
    /\ sub_in = NoCall
    /\ sub_out = NotCalled
    /\ NoIterCall
    /\ FirstRenderer
    /\ NoEvalCalls
    /\ NoRenderer

Next ==
    \/ HostClearWork
    \/ HostClearResults
    \/ HostPost
    \/ HostCreateGroup
    \/ add_to_stream
    \/ \E w \in Workers : Poll(w)
    \/ \E w \in Workers : Process(w)
    \/ \E w \in Workers : PostSubdivision(w)
    \/ \E w \in Workers : Ack(w)
    \/ \E w \in Workers : TransportError(w)
    \/ \E w \in Workers : Interrupt(w)

Spec == Init /\ [][Next]_vars

\* Steps a worker and the host take on their own; errors and interrupts come
\* from the environment.
WorkerStep(w) == Poll(w) \/ Process(w) \/ PostSubdivision(w) \/ Ack(w)

HostStep == HostClearWork \/ HostClearResults \/ HostPost \/ HostCreateGroup

\* Runs in which no operator interrupts a worker: a worker stops only where
\* run() itself returns.
NextUninterrupted ==
    \/ HostStep
    \/ add_to_stream
    \/ \E w \in Workers : WorkerStep(w)
    \/ \E w \in Workers : TransportError(w)

\* Every worker process and the host keep running: run() loops until it returns.
FairSpec ==
    /\ Init
    /\ [][NextUninterrupted]_vars
    /\ WF_vars(HostStep)
    /\ \A w \in Workers : WF_vars(WorkerStep(w))

\* ------------------------------------------ direct calls of subdivide_region
Regions ==
    { r \in [top_left_x : 0..MaxCoord, top_left_y : 0..MaxCoord,
             bottom_right_x : 0..MaxCoord, bottom_right_y : 0..MaxCoord] :
        r.top_left_x <= r.bottom_right_x /\ r.top_left_y <= r.bottom_right_y }

Quiet ==
    /\ host_i = 1
    /\ work_stream = <<>>
    /\ result_stream = <<>>
    /\ work_next_id = 1
    /\ result_next_id = 1
    /\ group = NoGroup
    /\ pending = {}
    /\ cur = [w \in Workers |-> NoMessage]
    /\ quarters = [w \in Workers |-> None]
    /\ qi = [w \in Workers |-> 1]
    /\ posted_count = [w \in Workers |-> 0]
    /\ processed_count = [w \in Workers |-> 0]
    /\ faults = 0
    /\ delivered = {}
    /\ failed = {}
    /\ interrupted = {}
    /\ polled_empty = [w \in Workers |-> FALSE]
    /\ last_done = [w \in Workers |-> [done |-> FALSE, posted |-> 0]]
    /\ read_failed = [w \in Workers |-> FALSE]
    /\ host_run = 1
    /\ seeded = {}

InitSub ==
    /\ Quiet
    /\ canvas_width = 0
    /\ canvas_height = 0
    /\ host_pc = "not_started"
    /\ pc = [w \in Workers |-> "not_started"]
    /\ sub_in \in Regions
    /\ sub_out = NotCalled
    /\ NoIterCall
    /\ FirstRenderer
    /\ NoEvalCalls
    /\ NoRenderer

CallSubdivide ==
    /\ ~sub_out.called
    /\ sub_out' = [called |-> TRUE,
                   value |-> subdivide_region(sub_in.top_left_x, sub_in.top_left_y,
                                              sub_in.bottom_right_x, sub_in.bottom_right_y)]
    /\ UNCHANGED <<hostVars, brokerVars, workerVars, faults, historyVars, sub_in,
                   evalVars, iterVars, replayVars, renderVars>>

SubSpec == InitSub /\ [][CallSubdivide]_vars

\* ------------------------------------- one worker, no error and no interrupt
InitSingle ==
    /\ Quiet
    /\ canvas_width \in 1..MaxCanvasSingle
    /\ canvas_height \in 1..MaxCanvasSingle
    /\ host_pc = "clear_work"
    /\ pc = [w \in Workers |-> IF w = "w1" THEN "poll" ELSE "not_started"]
    /\ sub_in = NoCall
    /\ sub_out = NotCalled
    /\ NoIterCall
    /\ FirstRenderer
    /\ NoEvalCalls
    /\ NoRenderer

NextSingle ==
    \/ HostClearWork
    \/ HostClearResults
    \/ HostPost
    \/ HostCreateGroup
    \/ Poll("w1")
    \/ Process("w1")
    \/ PostSubdivision("w1")
    \/ Ack("w1")

SingleSpec == InitSingle /\ [][NextSingle]_vars

\* ------------------ one worker that is started again whenever it has stopped
NextDrain ==
    \/ HostStep
    \/ WorkerStep("w1")
    \/ WorkerMain("w1")

\* The host runs to its end, the worker keeps running and is started again
\* whenever it has stopped; no call fails.
DrainSpec ==
    /\ InitSingle
    /\ [][NextDrain]_vars
    /\ WF_vars(HostStep)
    /\ WF_vars(WorkerStep("w1"))
    /\ WF_vars(WorkerMain("w1"))

\* ------------------------------------------------------- the host alone
\* main() of the host: MandelbrotHost(canvas_width=800, canvas_height=600)
MainCanvas == <<800, 600>>

InitHost ==
    /\ Quiet
    /\ \E c \in ((0..MaxCanvasHost) \X (0..MaxCanvasHost)) \cup {MainCanvas} :
           canvas_width = c[1] /\ canvas_height = c[2]
    /\ host_pc = "clear_work"
    /\ pc = [w \in Workers |-> "not_started"]
    /\ sub_in = NoCall
    /\ sub_out = NotCalled
    /\ NoIterCall
    /\ FirstRenderer
    /\ NoEvalCalls
    /\ NoRenderer

NextHost ==
    \/ HostClearWork
    \/ HostClearResults
    \/ HostPost
    \/ HostCreateGroup

HostSpec == InitHost /\ [][NextHost]_vars

\* ------------------------- the host run again while the workers are running
\* Canvas and running workers: two workers on one-pixel seeds, one worker on
\* seeds of which one posts a subdivision.
RerunConfigs == {<<2, 2, Workers>>, <<5, 5, {"w1"}>>}

InitRerun ==
    /\ Quiet
    /\ \E c \in RerunConfigs :
           /\ canvas_width = c[1]
           /\ canvas_height = c[2]
           /\ pc = [w \in Workers |-> IF w \in c[3] THEN "poll" ELSE "not_started"]
    /\ host_pc = "clear_work"
    /\ sub_in = NoCall
    /\ sub_out = NotCalled
    /\ NoIterCall
    /\ FirstRenderer
    /\ NoEvalCalls
    /\ NoRenderer

NextRerun ==
    \/ HostClearWork
    \/ HostClearResults
    \/ HostClearFails
    \/ HostPost
    \/ HostCreateGroup
    \/ HostRestart
    \/ \E w \in Workers : Poll(w)
    \/ \E w \in Workers : Process(w)
    \/ \E w \in Workers : PostSubdivision(w)
    \/ \E w \in Workers : Ack(w)

RerunSpec == InitRerun /\ [][NextRerun]_vars

\* -------------------------------------- direct calls of the tile evaluator
MaxCalls == 2       \* calls of calculate_region_color on the same input

EvalCanvases == {<<4, 4>>, <<5, 3>>}

EvalInputs ==
    { [top_left_x |-> r.top_left_x, top_left_y |-> r.top_left_y,
       bottom_right_x |-> r.bottom_right_x, bottom_right_y |-> r.bottom_right_y,
       canvas_width |-> c[1], canvas_height |-> c[2]] :
      r \in Regions, c \in EvalCanvases }

InitEval ==
    /\ Quiet
    /\ canvas_width = 0
    /\ canvas_height = 0
    /\ host_pc = "not_started"
    /\ pc = [w \in Workers |-> "not_started"]
    /\ sub_in = NoCall
    /\ sub_out = NotCalled
    /\ NoIterCall
    /\ FirstRenderer
    /\ eval_in \in EvalInputs
    /\ eval_out = <<>>
    /\ NoRenderer

\* worker.calculate_region_color(...) called by worker w
CallEvaluate(w) ==
    /\ Len(eval_out) < MaxCalls
    /\ eval_out' = Append(eval_out, [worker |-> w, color |-> Evaluate(w, eval_in)])
    /\ UNCHANGED <<hostVars, brokerVars, workerVars, faults, historyVars, callVars,
                   eval_in, iterVars, replayVars, renderVars>>

NextEval == \E w \in Workers : CallEvaluate(w)

EvalSpec == InitEval /\ [][NextEval]_vars

\* ------------------------------------ direct calls of mandelbrot_iterations
MaxQuarter == 8     \* Re c and Im c are multiples of 1/4 in -MaxQuarter/4 .. MaxQuarter/4

\* The arguments c of the calls, in fixed point; 2+2i is among them.
IterInputs ==
    { [re |-> a * (FixScale \div 4), im |-> b * (FixScale \div 4)] :
        a \in (0 - MaxQuarter)..MaxQuarter, b \in (0 - MaxQuarter)..MaxQuarter }

InitIter ==
    /\ Quiet
    /\ canvas_width = 0
    /\ canvas_height = 0
    /\ host_pc = "not_started"
    /\ pc = [w \in Workers |-> "not_started"]
    /\ sub_in = NoCall
    /\ sub_out = NotCalled
    /\ iter_c \in IterInputs
    /\ iter_z = <<0, 0, 0>>
    /\ iter_pc = "loop"
    /\ iter_ret = 0
    /\ iter_updates = 0
    /\ iter_bounded = TRUE
    /\ FirstRenderer
    /\ NoEvalCalls
    /\ NoRenderer

\* mandelbrot_iterations, lines 78-82: one pass of the for loop: `return n` when
\* abs(z) > escape_radius, `return self.max_iterations` when the range is
\* exhausted, else the update z = z * z + c
IterStep ==
    /\ iter_pc = "loop"
    /\ LET s == MandelStep(iter_c, iter_z)
       IN  IF s = iter_z
           THEN /\ iter_pc' = "returned"
                /\ iter_ret' = iter_z[3]
                /\ UNCHANGED <<iter_z, iter_updates, iter_bounded>>
           ELSE /\ iter_z' = s
                /\ iter_updates' = iter_updates + 1
                /\ iter_bounded' = (iter_bounded /\
                       iter_z[1] * iter_z[1] + iter_z[2] * iter_z[2] <= EscapeSq)
                /\ UNCHANGED <<iter_pc, iter_ret>>
    /\ UNCHANGED <<hostVars, brokerVars, workerVars, faults, historyVars, callVars,
                   evalVars, iter_c, replayVars, renderVars>>

IterSpec == InitIter /\ [][IterStep]_vars

\* ------------------------------------------------ the renderer on its own
MaxResults == 3     \* entries of the result stream the renderer replays

\* MandelbrotRenderer(canvas_width, canvas_height) of the replays
RenderCanvas == <<2, 2>>

Red == <<255, 0, 0>>

Blue == <<0, 0, 255>>

\* A result entry as post_result_to_stream writes it.
ResultEntry(tlx, tly, brx, bry, color) ==
    ResultData("w1",
               [quarter_name |-> "top_left", top_left_x |-> tlx, top_left_y |-> tly,
                bottom_right_x |-> brx, bottom_right_y |-> bry,
                canvas_width |-> RenderCanvas[1], canvas_height |-> RenderCanvas[2]],
               color)

Without(f, key) == [k \in DOMAIN f \ {key} |-> f[k]]

\* Entries of the replays: the top row, the left column (overlapping it), a
\* rectangle partly outside the canvas, one wholly outside it, an entry without
\* color_b and one whose color_r is not a number.
ResultCandidates ==
    { ResultEntry(0, 0, 2, 1, Red),
      ResultEntry(0, 0, 1, 2, Blue),
      ResultEntry(1, 1, 4, 4, Red),
      ResultEntry(5, 0, 7, 2, Blue),
      Without(ResultEntry(0, 0, 2, 2, Blue), "color_b"),
      [ResultEntry(0, 0, 2, 2, Red) EXCEPT !.color_r = NotANumber] }

\* The renderer has been constructed and run() has started its read thread.
RendererStarted ==
    /\ image_array = Blank
    /\ regions_rendered = 0
    /\ lock = "free"
    /\ running = TRUE
    /\ render_pc = "read"
    /\ entries = <<>>
    /\ last_id = StartCursor
    /\ paint_todo = {}
    /\ done_rasters = <<>>
    /\ stream_read_failed = FALSE
    /\ screen = Blank
    /\ export_pc = "not_started"
    /\ saved = Blank

InitRender ==
    /\ canvas_width = RenderCanvas[1]
    /\ canvas_height = RenderCanvas[2]
    /\ host_pc = "not_started"
    /\ host_i = 1
    /\ host_run = 1
    /\ seeded = {}
    /\ work_stream = <<>>
    /\ work_next_id = 1
    /\ \E n \in 0..MaxResults : \E c \in [1..n -> ResultCandidates] :
           /\ result_stream = [i \in 1..n |-> [id |-> i, fields |-> c[i]]]
           /\ result_next_id = n + 1
    /\ group = NoGroup
    /\ pending = {}
    /\ pc = [w \in Workers |-> "not_started"]
    /\ cur = [w \in Workers |-> NoMessage]
    /\ quarters = [w \in Workers |-> None]
    /\ qi = [w \in Workers |-> 1]
    /\ posted_count = [w \in Workers |-> 0]
    /\ processed_count = [w \in Workers |-> 0]
    /\ faults = 0
    /\ delivered = {}
    /\ failed = {}
    /\ interrupted = {}
    /\ polled_empty = [w \in Workers |-> FALSE]
    /\ last_done = [w \in Workers |-> [done |-> FALSE, posted |-> 0]]
    /\ read_failed = [w \in Workers |-> FALSE]
    /\ sub_in = NoCall
    /\ sub_out = NotCalled
    /\ NoIterCall
    /\ FirstRenderer
    /\ NoEvalCalls
    /\ RendererStarted
    /\ display_pc = "loop"

NextRender ==
    \/ XRead
    \/ process_result_entry
    \/ PaintPixel
    \/ PaintDone
    \/ HandleEvents
    \/ update_display
    \/ DisplayCopy
    \/ RunReturns
    \/ save_image
    \/ ExportCopy

RenderSpec == InitRender /\ [][NextRender]_vars

\* --------------------- the renderer with errors raised under the lock
NextRenderFault ==
    \/ NextRender
    \/ PaintRaises
    \/ DisplayRaises
    \/ ExportRaises
    \/ RendererInterrupt

RenderFaultSpec == InitRender /\ [][NextRenderFault]_vars

\* ----------------------- host, one worker and the renderer's read thread
PipelineCanvases == {<<2, 2>>, <<5, 5>>}

InitPipeline ==
    /\ Quiet
    /\ \E c \in PipelineCanvases : canvas_width = c[1] /\ canvas_height = c[2]
    /\ host_pc = "clear_work"
    /\ pc = [w \in Workers |-> IF w = "w1" THEN "poll" ELSE "not_started"]
    /\ sub_in = NoCall
    /\ sub_out = NotCalled
    /\ NoIterCall
    /\ FirstRenderer
    /\ NoEvalCalls
    /\ RendererStarted
    /\ display_pc = "not_started"

NextPipeline ==
    \/ HostClearWork
    \/ HostClearResults
    \/ HostPost
    \/ HostCreateGroup
    \/ Poll("w1")
    \/ Process("w1")
    \/ PostSubdivision("w1")
    \/ Ack("w1")
    \/ TransportError("w1")
    \/ XRead
    \/ StreamReadError
    \/ process_result_entry
    \/ PaintPixel
    \/ PaintDone

PipelineSpec == InitPipeline /\ [][NextPipeline]_vars

\* ----------------------------- a further renderer started while the run goes on
MaxRenderers == 2   \* renderer processes started in a behaviour

\* main(), lines 222-225: another renderer process is constructed and run() starts
\* its read thread.  The state describes the renderer started last; of the ones
\* before, the cursor and the raster they had after their last entry are kept.
RendererMain ==
    /\ render_pc # "not_started"
    /\ renderer_no < MaxRenderers
    /\ renderer_no' = renderer_no + 1
    /\ earlier' = earlier \cup
           {[cursor |-> last_id,
             image |-> IF done_rasters = <<>> THEN Blank
                       ELSE done_rasters[Len(done_rasters)]]}
    /\ image_array' = Blank
    /\ regions_rendered' = 0
    /\ lock' = "free"
    /\ running' = TRUE
    /\ render_pc' = "read"
    /\ entries' = <<>>
    /\ last_id' = StartCursor
    /\ paint_todo' = {}
    /\ done_rasters' = <<>>
    /\ stream_read_failed' = FALSE
    /\ screen' = Blank
    /\ saved' = Blank
    /\ UNCHANGED <<hostVars, brokerVars, workerVars, faults, historyVars, callVars,
                   evalVars, iterVars, display_pc, export_pc>>

NextReplay ==
    \/ NextPipeline
    \/ RendererMain

ReplaySpec == InitPipeline /\ [][NextReplay]_vars

\* ------------- shutdown of a worker and of the renderer while the run goes on
ReaderStep == XRead \/ process_result_entry \/ PaintPixel \/ PaintDone

DisplayStep ==
    \/ HandleEvents
    \/ update_display
    \/ DisplayCopy
    \/ RunReturns
    \/ save_image
    \/ ExportCopy

InitShutdown ==
    /\ Quiet
    /\ \E c \in PipelineCanvases : canvas_width = c[1] /\ canvas_height = c[2]
    /\ host_pc = "clear_work"
    /\ pc = [w \in Workers |-> IF w = "w1" THEN "poll" ELSE "not_started"]
    /\ sub_in = NoCall
    /\ sub_out = NotCalled
    /\ NoIterCall
    /\ FirstRenderer
    /\ NoEvalCalls
    /\ RendererStarted
    /\ display_pc = "loop"

NextShutdown ==
    \/ HostStep
    \/ WorkerStep("w1")
    \/ Interrupt("w1")
    \/ ReaderStep
    \/ DisplayStep
    \/ RendererInterrupt

\* The processes keep running until they stop by themselves or are interrupted;
\* interrupts and window events come from the environment.
ShutdownSpec ==
    /\ InitShutdown
    /\ [][NextShutdown]_vars
    /\ WF_vars(HostStep)
    /\ WF_vars(WorkerStep("w1"))
    /\ WF_vars(ReaderStep)
    /\ WF_vars(DisplayStep)

\* -------------------------- the host, one or two workers and the read thread
TeamCanvases == {<<2, 2>>, <<5, 5>>}

\* The workers that were started; they may poll before the host has run.
Teams == {{"w1"}, {"w1", "w2"}}

InitTeam ==
    /\ Quiet
    /\ \E c \in TeamCanvases : canvas_width = c[1] /\ canvas_height = c[2]
    /\ host_pc = "clear_work"
    /\ \E team \in Teams :
           pc = [w \in Workers |-> IF w \in team THEN "poll" ELSE "not_started"]
    /\ sub_in = NoCall
    /\ sub_out = NotCalled
    /\ NoIterCall
    /\ FirstRenderer
    /\ NoEvalCalls
    /\ RendererStarted
    /\ display_pc = "not_started"

NextTeam ==
    \/ HostStep
    \/ \E w \in Workers : WorkerStep(w)
    \/ ReaderStep

\* No call fails and nobody interrupts: the processes run as the code lets them.
TeamSpec == InitTeam /\ [][NextTeam]_vars

\* ------------------------------------------- the host and two workers
MaxCanvasCrew == 5

InitCrew ==
    /\ Quiet
    /\ canvas_width \in 1..MaxCanvasCrew
    /\ canvas_height \in 1..MaxCanvasCrew
    /\ host_pc = "clear_work"
    /\ pc = [w \in Workers |-> "poll"]
    /\ sub_in = NoCall
    /\ sub_out = NotCalled
    /\ NoIterCall
    /\ FirstRenderer
    /\ NoEvalCalls
    /\ NoRenderer

NextCrew ==
    \/ HostStep
    \/ \E w \in Workers : WorkerStep(w)

\* Both workers were started, before or after the host; no call fails.
CrewSpec == InitCrew /\ [][NextCrew]_vars

\* ------------------------------------------------------------ properties
Width(r) == r.bottom_right_x - r.top_left_x

Height(r) == r.bottom_right_y - r.top_left_y

SameRect(a, b) ==
    /\ a.top_left_x = b.top_left_x
    /\ a.top_left_y = b.top_left_y
    /\ a.bottom_right_x = b.bottom_right_x
    /\ a.bottom_right_y = b.bottom_right_y

WorkIds == { work_stream[i].id : i \in 1..Len(work_stream) }

FieldsOf(id) ==
    work_stream[CHOOSE i \in 1..Len(work_stream) : work_stream[i].id = id].fields

Decodes(f) == WorkKeys \subseteq DOMAIN f

IsPending(id) == \E p \in pending : p.id = id

WasDelivered(id) == \E d \in delivered : d.id = id

\* Delivered and no longer pending: the entry was acknowledged.
Completed(id) == WasDelivered(id) /\ ~IsPending(id)

\* The quarters of a region that are more than one pixel wide and high.
Qualifying(f) ==
    LET qs == subdivide_region(f.top_left_x, f.top_left_y,
                               f.bottom_right_x, f.bottom_right_y)
    IN  { qs[i] : i \in { j \in 1..Len(qs) : Width(qs[j]) > 1 /\ Height(qs[j]) > 1 } }

\* Work entries published by workers.
Subdivisions ==
    { i \in 1..Len(work_stream) : "subdivided_by" \in DOMAIN work_stream[i].fields }

PostedBack(q, f) ==
    \E i \in Subdivisions :
        /\ SameRect(work_stream[i].fields, q)
        /\ work_stream[i].fields.canvas_width = f.canvas_width
        /\ work_stream[i].fields.canvas_height = f.canvas_height

HasResult(f, w) ==
    \E i \in 1..Len(result_stream) :
        LET r == result_stream[i].fields
        IN  /\ r.worker_id = w
            /\ SameRect(r, f)
            /\ r.canvas_width = f.canvas_width
            /\ r.canvas_height = f.canvas_height

\* Result published (hence evaluated), qualifying quarters published, acknowledged.
Resolved(id, w) ==
    /\ id \in WorkIds
    /\ Decodes(FieldsOf(id))
    /\ HasResult(FieldsOf(id), w)
    /\ \A q \in Qualifying(FieldsOf(id)) : PostedBack(q, FieldsOf(id))
    /\ ~IsPending(id)

\* C1: a region at least two pixels wide and two pixels high is cut into exactly
\* four quadrants at the integer midpoints; their pixel extents are pairwise
\* disjoint and their union is exactly the pixel extent of the region.
C1_SubdivideExact ==
    (sub_out.called /\ Width(sub_in) >= 2 /\ Height(sub_in) >= 2) =>
        LET qs == sub_out.value
            mid_x == (sub_in.top_left_x + sub_in.bottom_right_x) \div 2
            mid_y == (sub_in.top_left_y + sub_in.bottom_right_y) \div 2
        IN  /\ Len(qs) = 4
            /\ qs[1].bottom_right_x = mid_x /\ qs[1].bottom_right_y = mid_y
            /\ qs[4].top_left_x = mid_x /\ qs[4].top_left_y = mid_y
            /\ \A i, j \in 1..4 : i # j => Pixels(qs[i]) \cap Pixels(qs[j]) = {}
            /\ UNION { Pixels(qs[i]) : i \in 1..4 } = Pixels(sub_in)

C1_Witness ==
    /\ sub_out.called
    /\ Width(sub_in) = 3
    /\ Height(sub_in) = 2
    /\ Len(sub_out.value) = 4

\* C2: a region whose width is at most 1 or whose height is at most 1 is
\* terminal: subdivide_region returns no quadrants for it.
C2_TerminalIfEitherSmall ==
    (sub_out.called /\ (Width(sub_in) <= 1 \/ Height(sub_in) <= 1)) =>
        ~Truthy(sub_out.value)

\* Entries that were delivered, whose processing raised or was interrupted, and
\* that nobody acknowledged.
UnackedFailures == { p \in pending : p.id \in failed \cup interrupted }

\* C3: a work message that was delivered but never acknowledged is delivered
\* again by a later poll of some member of the group.
C3_Redelivered ==
    (UnackedFailures # {}) ~> (\E d \in delivered : d.attempt >= 2)

\* C4: at any time each work message is held by at most one worker of the
\* group; two workers never hold the same entry.
C4_OneHolder ==
    /\ \A p, q \in pending : p.id = q.id => p.consumer = q.consumer
    /\ \A w1, w2 \in Workers :
           (w1 # w2 /\ cur[w1].id # 0) => cur[w1].id # cur[w2].id

C4_Witness ==
    /\ cur["w1"].id # 0
    /\ cur["w2"].id # 0
    /\ \E p, q \in pending : p.consumer = "w1" /\ q.consumer = "w2"

\* C5: when decoding or evaluating a delivered message raises, the worker goes
\* back to polling (it does not terminate) and the message is still in the
\* pending-entries list, unacknowledged.
C5_ErrorKeepsPending ==
    [][ \A w \in Workers :
            ( /\ pc[w] = "process"
              /\ ProcessingRaises(cur[w].fields)
              /\ cur[w].id \in failed' )
            => ( /\ pc'[w] = "poll"
                 /\ [id |-> cur[w].id, consumer |-> w] \in pending' ) ]_vars

C5_Witness ==
    \E w \in Workers : \E p \in pending :
        /\ pc[w] = "poll"
        /\ p.consumer = w
        /\ p.id \in failed
        /\ p.id \in WorkIds
        /\ ProcessingRaises(FieldsOf(p.id))

\* C6: after processing a message for which no sub-quadrant was published, the
\* worker is Terminated and polls no further.
C6_ZeroPostedTerminates ==
    \A w \in Workers :
        (last_done[w].done /\ last_done[w].posted = 0) => pc[w] = "Terminated"

\* C7: a worker whose poll returned no message is Terminated; an empty poll
\* never leaves it polling.
C7_EmptyPollTerminates ==
    \A w \in Workers : polled_empty[w] => pc[w] = "Terminated"

C7_Witness ==
    \E w \in Workers :
        polled_empty[w] /\ pc[w] = "Terminated" /\ processed_count[w] > 0

\* C8: every work message published by a worker is a sub-quadrant of a region of
\* the stream, more than one pixel wide and high; and once a worker has finished
\* posting the subdivisions of a region, every sub-quadrant of it that is more
\* than one pixel wide and high is on the stream.
C8_OnlyAndAllQualifying ==
    /\ \A i \in Subdivisions :
           LET f == work_stream[i].fields
           IN  /\ Width(f) > 1
               /\ Height(f) > 1
               /\ \E j \in 1..(i - 1) :
                      /\ Decodes(work_stream[j].fields)
                      /\ \E q \in Qualifying(work_stream[j].fields) : SameRect(q, f)
    /\ \A id \in WorkIds :
           (Completed(id) /\ Decodes(FieldsOf(id))) =>
               \A q \in Qualifying(FieldsOf(id)) : PostedBack(q, FieldsOf(id))
    /\ \A w \in Workers :
           pc[w] = "ack" =>
               \A q \in Qualifying(cur[w].fields) : PostedBack(q, cur[w].fields)

C8_Witness ==
    \E id \in WorkIds :
        /\ Completed(id)
        /\ Decodes(FieldsOf(id))
        /\ Width(FieldsOf(id)) = 3
        /\ Height(FieldsOf(id)) = 3
        /\ Cardinality(Qualifying(FieldsOf(id))) = 1
        /\ Subdivisions # {}

Drained ==
    /\ host_pc = "done"
    /\ Cardinality(delivered) = work_next_id - 1
    /\ \A id \in WorkIds : Resolved(id, "w1")

C11_FourQuadrants ==
    host_pc \in {"create_group", "done"} =>
        LET W == canvas_width
            H == canvas_height
            f(i) == work_stream[i].fields
            Holds(i, x, y) ==
                /\ f(i).top_left_x <= x /\ x < f(i).bottom_right_x
                /\ f(i).top_left_y <= y /\ y < f(i).bottom_right_y
        IN  /\ Len(work_stream) = 4
            /\ Cardinality(seeded) = 4
            /\ SameRect(f(1), Quarter("top_left", 0, 0, W \div 2, H \div 2))
            /\ SameRect(f(2), Quarter("top_right", W \div 2, 0, W, H \div 2))
            /\ SameRect(f(3), Quarter("bottom_left", 0, H \div 2, W \div 2, H))
            /\ SameRect(f(4), Quarter("bottom_right", W \div 2, H \div 2, W, H))
            /\ \A i \in 1..4 : f(i).canvas_width = W /\ f(i).canvas_height = H
            /\ \A x \in 0..(W - 1) : \A y \in 0..(H - 1) :
                   Cardinality({ i \in 1..4 : Holds(i, x, y) }) = 1
            /\ (W = 800 /\ H = 600) =>
                   /\ SameRect(f(1), Quarter("top_left", 0, 0, 400, 300))
                   /\ SameRect(f(2), Quarter("top_right", 400, 0, 800, 300))
                   /\ SameRect(f(3), Quarter("bottom_left", 0, 300, 400, 600))
                   /\ SameRect(f(4), Quarter("bottom_right", 400, 300, 800, 600))

C11_Witness ==
    /\ host_pc = "done"
    /\ canvas_width = 800
    /\ canvas_height = 600
    /\ Len(work_stream) = 4
    /\ work_stream[4].fields.top_left_x = 400
    /\ work_stream[4].fields.top_left_y = 300

\* C12: when a run of the host completes (clear, seed, create the group), the
\* work stream holds exactly the four seeds of that run and nothing else,
\* whatever the streams held before and whatever the workers did meanwhile.
C12_RerunHoldsOnlySeeds ==
    [][ (host_pc = "create_group" /\ host_pc' = "done") =>
            (WorkIds' = seeded' /\ Len(work_stream') = 4) ]_vars

\* C13: creating the consumer group when it already exists raises nothing to
\* main() (the host completes) and leaves the group's delivery cursor and its
\* pending-entries list as they were.
C13_CreateExistingSilent ==
    [][ (host_pc = "create_group" /\ group.exists /\ host_pc' # "create_group") =>
            (host_pc' = "done" /\ group' = group /\ pending' = pending) ]_vars

C13_Witness ==
    /\ host_pc = "done"
    /\ host_run = 2
    /\ Len(work_stream) = 8
    /\ group.last_delivered \in 1..4
    /\ \E p \in pending : p.id <= 4

\* The raster a processed entry was painted on.
RasterBefore(i) == IF i = 1 THEN Blank ELSE done_rasters[i - 1]

\* C14: compositing the same result message a second time leaves the raster as
\* it was after compositing it once.
C14_CompositeIdempotent ==
    \A i \in 2..Len(done_rasters) :
        ( /\ ~DecodeRaises(result_stream[i].fields)
          /\ ~DecodeRaises(result_stream[i - 1].fields)
          /\ result_stream[i].fields = result_stream[i - 1].fields )
        => done_rasters[i] = done_rasters[i - 1]

C14_Witness ==
    /\ Len(done_rasters) >= 2
    /\ ~DecodeRaises(result_stream[1].fields)
    /\ ~DecodeRaises(result_stream[2].fields)
    /\ result_stream[1].fields = result_stream[2].fields
    /\ done_rasters[1] # Blank
    /\ regions_rendered >= 2

Composited(r, f) ==
    [p \in CanvasPixels |->
        IF p \in ClampedSlice(f.top_left_x, f.top_left_y,
                              f.bottom_right_x, f.bottom_right_y)
        THEN EntryColor(f) ELSE r[p]]

\* C17: a result entry with a missing or non-numeric coordinate or colour field
\* leaves the raster unchanged and does not stop the read thread; the cursor
\* moves by exactly one entry, and every other entry, before or after it, is
\* painted.
C17_MalformedSkipped ==
    /\ render_pc = "stopped" => ~running
    /\ Len(done_rasters) =
           Cardinality({ i \in 1..Len(result_stream) : result_stream[i].id <= last_id })
    /\ \A i \in 1..Len(done_rasters) :
           IF DecodeRaises(result_stream[i].fields)
           THEN done_rasters[i] = RasterBefore(i)
           ELSE done_rasters[i] = Composited(RasterBefore(i), result_stream[i].fields)

C17_Witness ==
    /\ Len(done_rasters) = 3
    /\ ~DecodeRaises(result_stream[1].fields)
    /\ DecodeRaises(result_stream[2].fields)
    /\ ~DecodeRaises(result_stream[3].fields)
    /\ done_rasters[1] # Blank
    /\ done_rasters[2] = done_rasters[1]
    /\ done_rasters[3] # done_rasters[2]
    /\ render_pc = "read"
    /\ running

\* C18: painting a result entry sets exactly the pixels in the intersection of
\* its rectangle with the canvas to its colour and leaves every other pixel as
\* it was, also when the rectangle lies partly or wholly outside the canvas.
C18_PaintsExactlyIntersection ==
    \A i \in 1..Len(done_rasters) :
        ~DecodeRaises(result_stream[i].fields) =>
            \A p \in CanvasPixels :
                done_rasters[i][p] =
                    IF p \in Pixels(result_stream[i].fields)
                    THEN EntryColor(result_stream[i].fields)
                    ELSE RasterBefore(i)[p]

\* Rasters between two paints: the blank one and the one after each entry.
Committed == {Blank} \cup { done_rasters[i] : i \in 1..Len(done_rasters) }

\* C19: the read thread never paints while the display refresh or the image
\* export copies the raster, and every surface shown or saved is the raster as
\* it was between two paints: each rectangle is on it completely or not at all.
C19_SnapshotsConsistent ==
    /\ ~(render_pc = "paint" /\ (display_pc = "copy" \/ export_pc = "copy"))
    /\ screen \in Committed
    /\ saved \in Committed

C19_Witness ==
    /\ render_pc = "paint"
    /\ paint_todo # {}
    /\ image_array \notin Committed
    /\ display_pc = "update"
    /\ screen # Blank

\* C20: an error raised by a blocking read is not fatal: the worker whose
\* xreadgroup raised is polling again, and the read thread whose xread raised is
\* at its read again, still running, with the cursor it had.
C20_ReadErrorsNotFatal ==
    [][ /\ \A w \in Workers : read_failed'[w] => pc'[w] = "poll"
        /\ stream_read_failed' =>
               (render_pc' = "read" /\ running' /\ last_id' = last_id) ]_vars

C20_Witness ==
    /\ read_failed["w1"]
    /\ pc["w1"] = "poll"
    /\ stream_read_failed
    /\ render_pc = "read"
    /\ ~group.exists
    /\ Len(work_stream) > 0

\* C21: after a shutdown signal the worker and the renderer stop: a worker that
\* was interrupted with a message in flight has terminated and that message is
\* still in the pending list, every delivered message is either pending or was
\* acknowledged after its result and its qualifying quarters were published, and
\* once self.running is cleared the read thread and the display loop both stop.
C21_ShutdownStopsCleanly ==
    /\ [](\A id \in interrupted :
             /\ IsPending(id)
             /\ \A d \in delivered : d.id = id => pc[d.consumer] = "Terminated")
    /\ [](\A d \in delivered : IsPending(d.id) \/ Resolved(d.id, d.consumer))
    /\ (render_pc # "not_started" /\ ~running)
           ~> (render_pc = "stopped" /\ display_pc = "stopped")

\* C21 happens: the worker was interrupted after it had published the result of
\* the message in flight, and the renderer has stopped after a shutdown signal.
C21_Witness ==
    /\ \E id \in interrupted :
           /\ id \in WorkIds
           /\ HasResult(FieldsOf(id), "w1")
           /\ IsPending(id)
    /\ pc["w1"] = "Terminated"
    /\ ~running
    /\ render_pc = "stopped"
    /\ display_pc = "stopped"
    /\ Len(done_rasters) > 0

\* The raster after the first k entries of the result stream, taken in the order
\* order[1], order[2], ..., are composited onto the blank raster.
RECURSIVE CompositedInOrder(_, _)
CompositedInOrder(order, k) ==
    IF k = 0 THEN Blank
    ELSE Composited(CompositedInOrder(order, k - 1), result_stream[order[k]].fields)

\* The rectangles of two result entries share a pixel of the canvas.
Overlapping(f, g) ==
    ClampedSlice(f.top_left_x, f.top_left_y, f.bottom_right_x, f.bottom_right_y)
        \cap ClampedSlice(g.top_left_x, g.top_left_y, g.bottom_right_x, g.bottom_right_y)
    # {}

\* An order that applies overlapping results in the order of the result stream.
KeepsOverlapOrder(order) ==
    \A a, b \in DOMAIN order :
        ( /\ a < b
          /\ Overlapping(result_stream[order[a]].fields, result_stream[order[b]].fields) )
        => order[a] < order[b]

\* The read thread has composited every entry the result stream holds.
CaughtUp ==
    /\ render_pc = "read"
    /\ Len(done_rasters) = Len(result_stream)

\* C22 as stated: once the read thread has composited the results of the run,
\* compositing the same results in any other order gives the raster it holds.
C22_AnyOrderSameRaster ==
    CaughtUp =>
        \A order \in Permutations(1..Len(result_stream)) :
            CompositedInOrder(order, Len(result_stream)) = image_array

\* C22, amended: compositing the results of the run in any order that keeps
\* results with overlapping rectangles (a region and its sub-quadrants) in the
\* order of the result stream gives the raster the read thread holds.
C22_OverlapOrderSameRaster ==
    CaughtUp =>
        \A order \in Permutations(1..Len(result_stream)) :
            KeepsOverlapOrder(order) =>
                CompositedInOrder(order, Len(result_stream)) = image_array

\* C22 happens: the results of a region and of its sub-quadrant, in different
\* colours, and of the other seeds have all been composited.
C22_Witness ==
    /\ CaughtUp
    /\ Len(result_stream) = 5
    /\ \E i, j \in 1..Len(result_stream) :
           /\ i < j
           /\ Overlapping(result_stream[i].fields, result_stream[j].fields)
           /\ EntryColor(result_stream[i].fields) # EntryColor(result_stream[j].fields)
    /\ \E order \in Permutations(1..5) :
           /\ order # [i \in 1..5 |-> i]
           /\ KeepsOverlapOrder(order)

\* Deliveries of a work entry that carries the region of the result fields r.
DeliveriesOf(r) ==
    { d \in delivered :
        /\ d.id \in WorkIds
        /\ Decodes(FieldsOf(d.id))
        /\ SameRect(FieldsOf(d.id), r)
        /\ FieldsOf(d.id).canvas_width = r.canvas_width
        /\ FieldsOf(d.id).canvas_height = r.canvas_height }

\* C23: as long as no work message has been delivered a second time, the result
\* stream holds at most one result for a region (rectangle and canvas size), and
\* the region of every result was delivered exactly once, to the worker that
\* published the result.
C23_OneResultPerRegion ==
    (\A d \in delivered : d.attempt = 1) =>
        /\ \A i, j \in 1..Len(result_stream) :
               LET a == result_stream[i].fields
                   b == result_stream[j].fields
               IN  ( /\ SameRect(a, b)
                     /\ a.canvas_width = b.canvas_width
                     /\ a.canvas_height = b.canvas_height )
                   => i = j
        /\ \A i \in 1..Len(result_stream) :
               /\ Cardinality(DeliveriesOf(result_stream[i].fields)) = 1
               /\ \A d \in DeliveriesOf(result_stream[i].fields) :
                      d.consumer = result_stream[i].fields.worker_id

\* C23 happens: both workers have published results, among them the result of a
\* sub-quadrant, and nothing was delivered twice.
C23_Witness ==
    /\ \A d \in delivered : d.attempt = 1
    /\ Len(result_stream) = 5
    /\ \E i, j \in 1..Len(result_stream) :
           /\ result_stream[i].fields.worker_id = "w1"
           /\ result_stream[j].fields.worker_id = "w2"
    /\ \E i \in 1..Len(result_stream) :
           \E k \in Subdivisions :
               SameRect(result_stream[i].fields, work_stream[k].fields)

\* The read thread is between two entries.
BetweenEntries == render_pc \in {"read", "entry"}

\* C24: a step of a read thread leaves the result stream as it is; between two
\* entries the raster of a renderer, whenever it was started, is the composite
\* of every entry from the start of the stream up to its cursor; and a renderer
\* whose cursor is where the cursor of an earlier renderer was holds the raster
\* the earlier one held.
C24_ReadingReplaysFromStart ==
    /\ [][(last_id' # last_id \/ entries' # entries \/ image_array' # image_array)
              => result_stream' = result_stream]_vars
    /\ [](BetweenEntries =>
              /\ Len(done_rasters) =
                     Cardinality({ i \in 1..Len(result_stream) :
                                     result_stream[i].id <= last_id })
              /\ image_array =
                     CompositedInOrder([i \in 1..Len(done_rasters) |-> i],
                                       Len(done_rasters)))
    /\ [](\A e \in earlier :
              (BetweenEntries /\ e.cursor = last_id) => e.image = image_array)

\* C24 happens: a second renderer, started after the first had composited
\* entries, has composited all of them and its cursor is where the first one's was.
C24_Witness ==
    /\ renderer_no = 2
    /\ BetweenEntries
    /\ Len(done_rasters) >= 2
    /\ \E e \in earlier : e.cursor = last_id /\ e.image # Blank

\* The rectangle of the fields f is not empty and lies on the canvas f names.
InsideCanvas(f) ==
    /\ 0 <= f.top_left_x
    /\ f.top_left_x < f.bottom_right_x
    /\ f.bottom_right_x <= f.canvas_width
    /\ 0 <= f.top_left_y
    /\ f.top_left_y < f.bottom_right_y
    /\ f.bottom_right_y <= f.canvas_height

\* C25: the region of every work message on the work stream and of every result
\* message on the result stream satisfies 0 <= top_left.x < bottom_right.x <=
\* canvas_width and 0 <= top_left.y < bottom_right.y <= canvas_height, whatever
\* canvas size the host was given.
C25_RegionsInsideCanvas ==
    /\ \A i \in 1..Len(work_stream) : InsideCanvas(work_stream[i].fields)
    /\ \A i \in 1..Len(result_stream) : InsideCanvas(result_stream[i].fields)

RegionKeys == {"quarter_name", "top_left_x", "top_left_y", "bottom_right_x",
               "bottom_right_y", "canvas_width", "canvas_height", "timestamp"}

\* C26: every work message carries quarter_name, the four corner fields, the
\* canvas size and timestamp, and carries subdivided_by exactly when a worker,
\* not the host, published it; every result message carries these eight fields
\* plus color_r, color_g, color_b and worker_id, with the rectangle and canvas
\* size of a work message that was delivered to the worker it names.
C26_MessageFields ==
    /\ \A i \in 1..Len(work_stream) :
           LET f == work_stream[i].fields
           IN  IF work_stream[i].id \in seeded
               THEN DOMAIN f = RegionKeys
               ELSE /\ DOMAIN f = RegionKeys \cup {"subdivided_by"}
                    /\ f.subdivided_by \in Workers
    /\ \A i \in 1..Len(result_stream) :
           LET r == result_stream[i].fields
           IN  /\ DOMAIN r = RegionKeys \cup {"color_r", "color_g", "color_b", "worker_id"}
               /\ \E d \in delivered :
                      /\ d.consumer = r.worker_id
                      /\ d.id \in WorkIds
                      /\ SameRect(FieldsOf(d.id), r)
                      /\ FieldsOf(d.id).canvas_width = r.canvas_width
                      /\ FieldsOf(d.id).canvas_height = r.canvas_height

\* C26 happens: the work stream holds the host's seeds and a worker's
\* sub-quadrant, and the result stream holds the result of that sub-quadrant.
C26_Witness ==
    /\ \E i \in 1..Len(work_stream) : work_stream[i].id \in seeded
    /\ \E i \in Subdivisions :
           \E j \in 1..Len(result_stream) :
               SameRect(work_stream[i].fields, result_stream[j].fields)

\* 2 + 2i in fixed point
TwoPlusTwoI == [re |-> 2 * FixScale, im |-> 2 * FixScale]

\* C27: the value mandelbrot_iterations returns is the number of updates
\* z = z * z + c it performed; unless that is max_iterations, abs(z) exceeds the
\* escape radius after the last update and did not exceed it before any of them;
\* for c = 2 + 2i the value is below 5.
C27_CountsUpdatesBeforeEscape ==
    iter_pc = "returned" =>
        /\ iter_ret = iter_updates
        /\ iter_ret = mandelbrot_iterations(iter_c)
        /\ iter_bounded
        /\ iter_ret < max_iterations =>
               iter_z[1] * iter_z[1] + iter_z[2] * iter_z[2] > EscapeSq
        /\ iter_c = TwoPlusTwoI => iter_ret < 5

\* C27 happens: the call for c = 2 + 2i has returned after one update.
C27_Witness ==
    /\ iter_pc = "returned"
    /\ iter_c = TwoPlusTwoI
    /\ iter_ret = 1
    /\ iter_updates = 1

\* The result of the work entry id by worker w and every qualifying quarter of
\* its region are on the streams.
Published(id, w) ==
    /\ HasResult(FieldsOf(id), w)
    /\ \A q \in Qualifying(FieldsOf(id)) : PostedBack(q, FieldsOf(id))

\* C28: an entry leaves the pending list only by the xack of the worker that
\* holds it, sent when the result and every qualifying sub-quadrant are already
\* published; a worker that is stopped before that step leaves the message
\* pending; and no delivered entry is acknowledged without its result and its
\* qualifying sub-quadrants.
C28_AckIsLast ==
    /\ [][\A p \in pending :
              p \notin pending' =>
                  /\ pc[p.consumer] = "ack"
                  /\ cur[p.consumer].id = p.id
                  /\ Published(p.id, p.consumer)]_vars
    /\ [][\A w \in Workers :
              ( /\ pc[w] \in {"process", "post_sub"}
                /\ pc'[w] \in {"poll", "Terminated"} )
              => [id |-> cur[w].id, consumer |-> w] \in pending']_vars
    /\ [](\A d \in delivered :
              ~IsPending(d.id) => Published(d.id, d.consumer))

\* C28 happens: one message was acknowledged after its result and its
\* sub-quadrant were published, and a message whose result was published is
\* pending because its worker was stopped before the xack.
C28_Witness ==
    /\ \E d \in delivered :
           /\ ~IsPending(d.id)
           /\ Qualifying(FieldsOf(d.id)) # {}
           /\ Published(d.id, d.consumer)
    /\ \E id \in interrupted :
           /\ IsPending(id)
           /\ HasResult(FieldsOf(id), "w1")
    /\ pc["w1"] = "Terminated"

\* C29: the work stream holds only entries that are undelivered or pending: an
\* entry that was delivered and acknowledged is no longer on the stream.
C29_AckedEntryDeleted ==
    \A i \in 1..Len(work_stream) :
        \/ i \in Undelivered
        \/ IsPending(work_stream[i].id)

\* C30: the raster lock is held only while its holder is inside its with block:
\* the read thread in the paint, the display loop in the refresh, main in the
\* export; after every way out of these blocks, an error raised inside them
\* included, the lock is free for the next paint or read.
C30_LockReleasedOnEveryExit ==
    /\ lock = "reader" <=> render_pc = "paint"
    /\ lock = "display" <=> display_pc = "copy"
    /\ lock = "export" <=> export_pc = "copy"
    /\ lock \in {"free", "reader", "display", "export"}

\* C30 happens: after an error was raised under the lock, the read thread holds
\* the lock for a later paint.
C30_Witness ==
    /\ faults > 0
    /\ lock = "reader"
    /\ render_pc = "paint"
    /\ paint_todo # {}
    /\ display_pc = "stopped"
    /\ export_pc = "not_started"

\* C31: the cursor of the read thread never moves backwards; between two
\* entries, also after a read that raised and was tried again, the entries up to
\* the cursor have been processed in the order of the stream, one after the
\* other from its first entry, and each of them that can be decoded was painted
\* once: the count of paints is the number of those entries.
C31_InOrderExactlyOnce ==
    /\ [][last_id' >= last_id]_vars
    /\ [](BetweenEntries =>
              /\ Len(done_rasters) =
                     Cardinality({ i \in 1..Len(result_stream) :
                                     result_stream[i].id <= last_id })
              /\ regions_rendered =
                     Cardinality({ i \in 1..Len(result_stream) :
                                     /\ result_stream[i].id <= last_id
                                     /\ ~DecodeRaises(result_stream[i].fields) })
              /\ \A i \in 1..Len(done_rasters) :
                     done_rasters[i] =
                         IF DecodeRaises(result_stream[i].fields)
                         THEN RasterBefore(i)
                         ELSE Composited(RasterBefore(i), result_stream[i].fields))

\* C31 happens: a read raised after the thread had composited an entry, while
\* the stream holds entries after the cursor.
C31_Witness ==
    /\ stream_read_failed
    /\ render_pc = "read"
    /\ last_id >= 1
    /\ regions_rendered >= 1
    /\ \E i \in 1..Len(result_stream) : result_stream[i].id > last_id

\* The entry at index i of the work stream was cut from the region of an earlier
\* entry that contains it and is wider and higher than it.
CutFromLarger(i) ==
    \E j \in 1..(i - 1) :
        LET f == work_stream[i].fields
            g == work_stream[j].fields
        IN  /\ g.top_left_x <= f.top_left_x
            /\ f.bottom_right_x <= g.bottom_right_x
            /\ g.top_left_y <= f.top_left_y
            /\ f.bottom_right_y <= g.bottom_right_y
            /\ Width(f) < Width(g)
            /\ Height(f) < Height(g)

\* C32: every sub-quadrant a worker publishes is narrower and lower than the
\* region it was cut from, the work stream never holds more messages than four
\* seeds plus one per pixel of the canvas, and with a worker that keeps polling
\* (it is started again whenever it stops) and no failure the work stream ends
\* up, for good, without an undelivered entry and without a pending one.
C32_SubdivisionTerminates ==
    /\ [](\A i \in Subdivisions : CutFromLarger(i))
    /\ [](Len(work_stream) <= 4 + canvas_width * canvas_height)
    /\ <>[](host_pc = "done" /\ Undelivered = {} /\ pending = {})

\* C32 happens: the sub-quadrants of a seed were published and processed, and
\* nothing is left to deliver.
C32_Witness ==
    /\ host_pc = "done"
    /\ Cardinality(Subdivisions) >= 4
    /\ Undelivered = {}
    /\ pending = {}
    /\ Len(result_stream) = Len(work_stream)

\* The rectangle of f lies in the rectangle of g of the same canvas.
Within(f, g) ==
    /\ f.canvas_width = g.canvas_width
    /\ f.canvas_height = g.canvas_height
    /\ g.top_left_x <= f.top_left_x
    /\ f.bottom_right_x <= g.bottom_right_x
    /\ g.top_left_y <= f.top_left_y
    /\ f.bottom_right_y <= g.bottom_right_y

\* f is a region subdivided from g: it lies in g and is not g.
SubdividedFrom(f, g) == Within(f, g) /\ ~SameRect(f, g)

\* Pixel p is one the read thread paints for a result: it is in the slice
\* fill_region selects after its four clamps (lines 69-76).
InSlice(p, f) ==
    /\ Max(0, Min(f.top_left_x, canvas_width - 1)) <= p[1]
    /\ p[1] < Max(0, Min(f.bottom_right_x, canvas_width))
    /\ Max(0, Min(f.top_left_y, canvas_height - 1)) <= p[2]
    /\ p[2] < Max(0, Min(f.bottom_right_y, canvas_height))

\* The results among the first k of the stream that paint pixel p.
Painters(k, p) == { m \in 1..k : InSlice(p, result_stream[m].fields) }

LastPainter(k, p) == CHOOSE m \in Painters(k, p) : \A n \in Painters(k, p) : n <= m

\* C33: on the result stream the result of a region comes before the result of
\* every region subdivided from it, with one worker or two and however they
\* interleave; and whenever the read thread has painted the first k results,
\* every painted pixel holds the colour of a result whose region lies in the
\* region of every result painted on that pixel: the paint of no ancestor covers
\* finer paint.
C33_AncestorResultFirst ==
    /\ \A i, j \in 1..Len(result_stream) :
           SubdividedFrom(result_stream[j].fields, result_stream[i].fields) => i < j
    /\ \A k \in {Len(done_rasters)} \ {0} : \A p \in CanvasPixels :
           Painters(k, p) # {} =>
               LET last == result_stream[LastPainter(k, p)].fields
               IN  /\ done_rasters[k][p] = EntryColor(last)
                   /\ \A m \in Painters(k, p) : Within(last, result_stream[m].fields)

\* C33 happens: one worker published the result of a seed, the other one the
\* result of a region subdivided from it, and the read thread painted both.
C33_Witness ==
    \E i, j \in 1..Len(result_stream) :
        /\ SubdividedFrom(result_stream[j].fields, result_stream[i].fields)
        /\ result_stream[i].fields.worker_id # result_stream[j].fields.worker_id
        /\ Len(done_rasters) >= j
        /\ render_pc = "read"

Rect(f) == <<f.top_left_x, f.top_left_y, f.bottom_right_x, f.bottom_right_y>>

\* The regions a recursion inside one process visits from region f: f itself and
\* what it visits from every quarter of f more than one pixel wide and high.
RECURSIVE Visited(_)
Visited(f) == {Rect(f)} \cup UNION { Visited(q) : q \in Qualifying(f) }

\* What the recursion visits from the four seed quadrants of the canvas.
VisitedFromSeeds ==
    LET seeds == get_quarter_coordinates(canvas_width, canvas_height)
    IN  UNION { Visited(seeds[i]) : i \in 1..Len(seeds) }

\* The regions that have a result on the result stream.
ResultRegions == { Rect(result_stream[i].fields) : i \in 1..Len(result_stream) }

\* The host has published the seeds and created the group, every entry of the
\* work stream has been delivered and acknowledged, and no worker is at work.
QueueDrained ==
    /\ host_pc = "done"
    /\ group.exists
    /\ Undelivered = {}
    /\ pending = {}
    /\ \A w \in Workers : pc[w] \in {"not_started", "poll", "Terminated"}

\* C34: in a run without failures, with one worker or with two and in every
\* interleaving, no result is ever published for a region outside the set the
\* recursion inside one process visits from the four seeds, and once the queue is
\* drained the regions with a result are exactly that set, one result for each.
C34_SameRegionsAsRecursion ==
    /\ ResultRegions \subseteq VisitedFromSeeds
    /\ QueueDrained =>
           /\ ResultRegions = VisitedFromSeeds
           /\ Len(result_stream) = Cardinality(VisitedFromSeeds)

\* C34 happens: two workers have drained the queue of a canvas whose seeds are
\* subdivided, each of them having published results.
C34_Witness ==
    /\ QueueDrained
    /\ Cardinality(Subdivisions) >= 1
    /\ \A w \in Workers : \E i \in 1..Len(result_stream) : result_stream[i].fields.worker_id = w

\* Every started worker has stopped.
AllTerminated == \A w \in Workers : pc[w] \in {"not_started", "Terminated"}

Contains(f, p) ==
    /\ f.top_left_x <= p[1]
    /\ p[1] < f.bottom_right_x
    /\ f.top_left_y <= p[2]
    /\ p[2] < f.bottom_right_y

\* The results whose region contains pixel p.
Covering(p) == { i \in 1..Len(result_stream) : Contains(result_stream[i].fields, p) }

Area(f) == Width(f) * Height(f)

\* A result with the smallest region among those that contain p.
Smallest(p) ==
    CHOOSE i \in Covering(p) :
        \A j \in Covering(p) : Area(result_stream[i].fields) <= Area(result_stream[j].fields)

\* The run is complete: the queue is drained, every region of the decomposition
\* has its result and the read thread has painted every result.
RunComplete ==
    /\ QueueDrained
    /\ ResultRegions = VisitedFromSeeds
    /\ CaughtUp

\* C36: once the read thread has painted all results of a complete run without
\* failures, every pixel of the canvas lies in the region of some result and
\* holds the colour of the smallest region with a result that contains it.
C36_FinestColorEverywhere ==
    RunComplete =>
        \A p \in CanvasPixels :
            /\ Covering(p) # {}
            /\ image_array[p] = EntryColor(result_stream[Smallest(p)].fields)

\* C36 happens: a complete run on a canvas with a subdivided seed, where some
\* pixel lies in two regions with results of different colours.
C36_Witness ==
    /\ RunComplete
    /\ \E p \in CanvasPixels : \E i, j \in Covering(p) :
           EntryColor(result_stream[i].fields) # EntryColor(result_stream[j].fields)

\* The seed with this id can still be delivered or has been: it is on the work
\* stream, and it is after the cursor of the group or was handed to a worker.
Deliverable(id) ==
    /\ id \in WorkIds
    /\ \/ id > group.last_delivered
       \/ WasDelivered(id)

\* C37: the host creates the group after it has published the four seeds, and
\* the new group starts before the first of them; from then on every seed is
\* after the cursor of the group or has been delivered to a worker. While the
\* group does not exist a polling worker is delivered nothing and changes
\* neither stream, so the seeds published meanwhile are all still to be delivered.
C37_SeedsDeliverable ==
    /\ [](group.exists =>
              /\ host_pc = "done"
              /\ Cardinality(seeded) = 4
              /\ \A id \in seeded : Deliverable(id))
    /\ [](~group.exists => (delivered = {} /\ pending = {}))
    /\ [][(~group.exists /\ group'.exists) =>
              /\ group'.last_delivered = 0
              /\ Len(work_stream) = 4
              /\ \A id \in seeded : id > group'.last_delivered]_vars
    /\ [][\A w \in Workers :
              (~group.exists /\ pc[w] = "poll" /\ read_failed'[w] /\ ~read_failed[w]) =>
                  (work_stream' = work_stream /\ pc'[w] = "poll" /\ cur'[w] = cur[w])]_vars

\* C37 happens: one worker polled before the group existed, and after the host
\* had finished the four seeds were all delivered to the other worker.
C37_Witness ==
    /\ host_pc = "done"
    /\ \E w \in Workers : read_failed[w] /\ processed_count[w] = 0
    /\ \A id \in seeded : \E d \in delivered : d.id = id /\ ~read_failed[d.consumer]
    /\ Cardinality(seeded) = 4

====
